---- MODULE Spec2Model ----
(***************************************************************************)
(* Model of the tabu search for the truck-and-drone min-timespan delivery   *)
(* problem: routes and their neighbourhood generators (routes.rs), the      *)
(* neighbourhood orchestrator (neighborhoods.rs) and the greedy             *)
(* construction, tabu loop and post-optimization (solutions.rs).            *)
(*                                                                         *)
(* Numbers.  The program computes in f64.  The instances of this model use  *)
(* integer coordinates with the Manhattan metric, unit speeds and           *)
(* capacities and limits that are powers of two, and penalty_exponent = 1,  *)
(* so every quantity the program computes is a dyadic rational that f64     *)
(* represents exactly.  The model computes with exact rationals <<n, d>>.   *)
(***************************************************************************)
EXTENDS Integers, Sequences, FiniteSets, TLC

VARIABLES
    cfg,              \* the frozen CONFIG record
    pc,               \* position of the program
    clusters,         \* initialize: clusters (Vec<Vec<usize>>)
    clusters_mapping, \* initialize: cluster index of every customer
    truckable,        \* initialize: truckable bits
    dronableInit,     \* initialize: the local dronable bits
    queue,            \* initialize: the BinaryHeap<_State>, in push order
    global,           \* initialize: BTreeSet of the customers not yet placed
    truck_routes,     \* initialize: truck route lists under construction
    drone_routes,     \* initialize: drone route lists under construction
    root,             \* the solution returned by initialize
    result,           \* tabu_search: best solution
    current,          \* tabu_search: current solution
    last_improved,    \* tabu_search: iteration of the last improvement of result
    elite_set,        \* tabu_search: elite set
    neighborhood_idx, \* tabu_search: index of the neighbourhood of the next iteration
    tabu_lists,       \* tabu_search: one tabu list per neighbourhood
    iteration,        \* tabu_search: number of the last executed iteration
    penalty,          \* PENALTY_COEFF, four rationals
    tabu_size,        \* tabu_search: hyperparameter
    reset_after,      \* tabu_search: hyperparameter
    tabu_history,     \* history: attributes inserted into each tabu list since it was cleared
    improved,         \* post_optimization: a neighbour replaced result in this sweep
    sweep_idx,        \* post_optimization: index of the next neighbourhood of the sweep
    obs,              \* history: what the last step did
    rt                \* the route pair and the generator output of the route experiment

vars == <<cfg, pc, clusters, clusters_mapping, truckable, dronableInit, queue, global,
          truck_routes, drone_routes, root, result, current, last_improved, elite_set,
          neighborhood_idx, tabu_lists, iteration, penalty, tabu_size, reset_after,
          tabu_history, improved, sweep_idx, obs, rt>>

----------------------------------------------------------------------------
(* Sequence helpers with the 0-based indices of the source.                 *)

At(s, i) == s[i + 1]

Set0(s, i, v) == [s EXCEPT ![i + 1] = v]

Swap0(s, i, j) == [s EXCEPT ![i + 1] = s[j + 1], ![j + 1] = s[i + 1]]

\* s[lo..hi) of the source
Slice0(s, lo, hi) == IF hi <= lo THEN <<>> ELSE SubSeq(s, lo + 1, hi)

\* Vec::remove(i)
Remove0(s, i) == SubSeq(s, 1, i) \o SubSeq(s, i + 2, Len(s))

\* Vec::insert(i, v)
Insert0(s, i, v) == SubSeq(s, 1, i) \o <<v>> \o SubSeq(s, i + 1, Len(s))

\* Vec::pop
Pop(s) == SubSeq(s, 1, Len(s) - 1)

\* slice[lo..hi).rotate_right(k), k <= hi - lo
RotateRight0(s, lo, hi, k) ==
    LET seg == Slice0(s, lo, hi)
        n == Len(seg)
    IN  SubSeq(s, 1, lo) \o SubSeq(seg, n - k + 1, n) \o SubSeq(seg, 1, n - k)
        \o SubSeq(s, hi + 1, Len(s))

\* slice[lo..hi).rotate_left(k), k <= hi - lo
RotateLeft0(s, lo, hi, k) ==
    LET seg == Slice0(s, lo, hi)
        n == Len(seg)
    IN  SubSeq(s, 1, lo) \o SubSeq(seg, k + 1, n) \o SubSeq(seg, 1, k)
        \o SubSeq(s, hi + 1, Len(s))

\* slice[lo..hi).reverse()
Reverse0(s, lo, hi) ==
    [p \in 1..Len(s) |-> IF p >= lo + 1 /\ p <= hi THEN s[lo + hi + 1 - p] ELSE s[p]]

\* a removal that leaves the vector as it is
SwapRemoveKeeps(s, i) == s

\* Vec::swap_remove(i)
SwapRemove0(s, i) ==
    IF i = Len(s) - 1 THEN Pop(s) ELSE Pop(Set0(s, i, s[Len(s)]))

\* Vec::contains
Contains(s, v) == \E p \in 1..Len(s) : s[p] = v

\* position of the first occurrence, 0-based; Len(s) when absent
RECURSIVE PositionFrom(_, _, _)
PositionFrom(s, v, i) ==
    IF i >= Len(s) THEN Len(s)
    ELSE IF At(s, i) = v THEN i ELSE PositionFrom(s, v, i + 1)

Position(s, v) == PositionFrom(s, v, 0)

\* Vec<usize>::sort (insertion of each element into a sorted prefix)
RECURSIVE InsertSorted(_, _)
InsertSorted(s, v) ==
    IF s = <<>> THEN <<v>>
    ELSE IF v < s[1] THEN <<v>> \o s
    ELSE <<s[1]>> \o InsertSorted(Tail(s), v)

RECURSIVE Sort(_)
Sort(s) == IF s = <<>> THEN <<>> ELSE InsertSorted(Sort(Pop(s)), s[Len(s)])

\* concatenation of ss[lo..hi], by halves
RECURSIVE ConcatRange(_, _, _)
ConcatRange(ss, lo, hi) ==
    IF lo > hi THEN <<>>
    ELSE IF lo = hi THEN ss[lo]
    ELSE ConcatRange(ss, lo, (lo + hi) \div 2) \o ConcatRange(ss, (lo + hi) \div 2 + 1, hi)

Concat(ss) == ConcatRange(ss, 1, Len(ss))

Range(s) == {s[p] : p \in 1..Len(s)}

\* a value bound before its use, as a `let` binds it
Let(value, Body(_)) == CHOOSE body \in {Body(bound) : bound \in {value}} : TRUE

----------------------------------------------------------------------------
(* Exact rationals <<n, d>>, d > 0; <<1, 0>> stands for f64::MAX/INFINITY.  *)

Abs(a) == IF a < 0 THEN -a ELSE a

\* f64::max(0.0) of a difference
Max0(a) == IF a < 0 THEN 0 ELSE a

RECURSIVE Gcd(_, _)
Gcd(a, b) == IF b = 0 THEN a ELSE Gcd(b, a % b)

RNorm(n, d) ==
    IF d = 0 THEN <<1, 0>>
    ELSE LET g == Gcd(Abs(n), d) IN IF g = 0 THEN <<0, 1>> ELSE <<n \div g, d \div g>>

RInt(n) == <<n, 1>>
RMaxValue == <<1, 0>>
RAdd(a, b) == RNorm(a[1] * b[2] + b[1] * a[2], a[2] * b[2])
RSub(a, b) == RNorm(a[1] * b[2] - b[1] * a[2], a[2] * b[2])
RMul(a, b) == RNorm(a[1] * b[1], a[2] * b[2])
RDivInt(a, k) == RNorm(a[1], a[2] * k)
\* a < b for non-negative a and b whose components are too large to
\* multiply: by integer parts, then by the inverted fractional parts
RECURSIVE RLessWide(_, _)
RLessWide(a, b) ==
    IF b[2] = 0 THEN a[2] # 0
    ELSE IF a[2] = 0 THEN FALSE
    ELSE IF a[1] \div a[2] # b[1] \div b[2] THEN a[1] \div a[2] < b[1] \div b[2]
    ELSE IF b[1] % b[2] = 0 THEN FALSE
    ELSE IF a[1] % a[2] = 0 THEN TRUE
    ELSE RLessWide(<<b[2], b[1] % b[2]>>, <<a[2], a[1] % a[2]>>)

\* the components of a and b are small enough to multiply
RNarrow(a, b) ==
    \A c \in {a[1], a[2], b[1], b[2]} : c > -32768 /\ c < 32768

RLess(a, b) ==
    IF RNarrow(a, b) THEN a[1] * b[2] < b[1] * a[2] ELSE RLessWide(a, b)
RPos(a) == a[1] > 0
RMax(a, b) == IF RLess(a, b) THEN b ELSE a
RMin(a, b) == IF RLess(b, a) THEN b ELSE a
RZero == <<0, 1>>

----------------------------------------------------------------------------
(* CONFIG (config.rs).  x, y, demands and dronable are indexed by customer, *)
(* the depot is customer 0 and is stored at position 1 of each sequence.    *)

\* CONFIG.distances[i][j]: Manhattan distance matrix of the coordinates
Distance(i, j) == Abs(At(cfg.x, i) - At(cfg.x, j)) + Abs(At(cfg.y, i) - At(cfg.y, j))

Demand(c) == At(cfg.demands, c)

\* TruckConfig.speed and the speed of DroneConfig::Endurance
TruckSpeed == 1
DroneSpeed == 1

\* DroneConfig::Endurance: take-off and landing take no time, no energy is used
DroneTakeoffTime == 0
DroneLandingTime == 0
DroneBattery == 1

\* distances are whole multiples of the speeds: times are integers
DroneCruiseTime(distance) == distance \div DroneSpeed

\* Route::_servable: TruckRoute serves everyone, DroneRoute the dronable customers
Servable(kind, c) == IF kind = "truck" THEN TRUE ELSE At(cfg.dronable, c)

\* the assertions of _RouteData::_construct
ValidRoute(customers) ==
    /\ Len(customers) >= 3
    /\ customers[1] = 0
    /\ customers[Len(customers)] = 0

RECURSIVE RouteDistanceFrom(_, _)
RouteDistanceFrom(customers, i) ==
    IF i >= Len(customers) - 1 THEN 0
    ELSE Distance(At(customers, i), At(customers, i + 1)) + RouteDistanceFrom(customers, i + 1)

\* _RouteData.value.distance
RouteDistance(customers) == RouteDistanceFrom(customers, 0)

RECURSIVE RouteWeightFrom(_, _)
RouteWeightFrom(customers, i) ==
    IF i >= Len(customers) - 1 THEN 0
    ELSE Demand(At(customers, i)) + RouteWeightFrom(customers, i + 1)

\* _RouteData.value.weight
RouteWeight(customers) == RouteWeightFrom(customers, 0)

\* TruckRoute::_calculate_waiting_time_violation
RECURSIVE TruckWaitingFrom(_, _, _, _)
TruckWaitingFrom(customers, working_time, i, accumulate_time) ==
    IF i >= Len(customers) - 1 THEN 0
    ELSE LET After(acc) ==
                 Max0(working_time - acc - cfg.waiting_time_limit)
                 + TruckWaitingFrom(customers, working_time, i + 1, acc)
         IN  After(accumulate_time
                   + Distance(At(customers, i - 1), At(customers, i)) \div TruckSpeed)

\* the loop of DroneRoute::_construct, waiting time part
RECURSIVE DroneWaitingFrom(_, _, _, _)
DroneWaitingFrom(customers, working_time, i, time) ==
    IF i >= Len(customers) - 1 THEN 0
    ELSE LET After(t) ==
                 Max0(working_time - t - cfg.waiting_time_limit)
                 + DroneWaitingFrom(customers, working_time, i + 1, t)
         IN  After(time + DroneTakeoffTime + DroneLandingTime
                   + DroneCruiseTime(Distance(At(customers, i), At(customers, i + 1))))

Kinds == <<"truck", "drone">>

\* Route::working_time
RouteWorkingTime(kind, customers) ==
    IF kind = "truck" THEN RouteDistance(customers) \div TruckSpeed
    ELSE DroneCruiseTime(RouteDistance(customers))
         + (DroneTakeoffTime + DroneLandingTime) * (Len(customers) - 1)

\* Route::capacity_violation (not yet normalized)
RouteCapacityViolation(kind, customers) ==
    Max0(RouteWeight(customers)
         - (IF kind = "truck" THEN cfg.truck_capacity ELSE cfg.drone_capacity))

\* Route::waiting_time_violation of a route with the given working time
RouteWaitingTimeViolation(kind, customers, working_time) ==
    IF kind = "truck"
    THEN TruckWaitingFrom(customers, working_time, 1, 0)
    ELSE DroneWaitingFrom(customers, working_time, 0, 0)

\* DroneRoute.energy_violation: the powers of DroneConfig::Endurance are 0
DroneEnergyViolation(customers) == 0

\* DroneRoute.fixed_time_violation of a route with the given working time
DroneFixedTimeViolation(working_time) == Max0(working_time - cfg.drone_fixed_time)

\* the values a route holds once constructed
RouteData(kind, customers) ==
    LET Of(working_time) ==
            [working_time |-> working_time,
             capacity_violation |-> RouteCapacityViolation(kind, customers),
             waiting_time_violation |->
                 RouteWaitingTimeViolation(kind, customers, working_time),
             energy_violation |->
                 IF kind = "truck" THEN 0 ELSE DroneEnergyViolation(customers),
             fixed_time_violation |->
                 IF kind = "truck" THEN 0 ELSE DroneFixedTimeViolation(working_time)]
    IN  Of(RouteWorkingTime(kind, customers))

\* Route::single
Single(customer) == <<0, customer, 0>>

\* Route::push
Push(customers, customer) == Insert0(customers, Len(customers) - 1, customer)

\* Route::pop
RoutePop(customers) == Remove0(customers, Len(customers) - 2)


----------------------------------------------------------------------------
(* Route::intra_route (_intra_route_impl), one loop of the source per       *)
(* recursive operator.  Every operator returns the buffer it leaves and     *)
(* the candidates it pushed, in order.                                      *)

Cand(route, tabu) == [route |-> route, tabu |-> tabu]
Out(buf, res) == [res |-> res, buf |-> buf]

\* Move10, first pair of loops: inner loop over j in i..length-2
RECURSIVE IntraMove10FwdJ(_, _, _, _)
IntraMove10FwdJ(c, buf, i, j) ==
    IF j >= Len(c) - 2 THEN Out(buf, <<>>)
    ELSE LET b == Swap0(buf, j, j + 1)
             rest == IntraMove10FwdJ(c, b, i, j + 1)
         IN  Out(rest.buf, <<Cand(b, <<At(c, i)>>)>> \o rest.res)

RECURSIVE IntraMove10FwdI(_, _, _)
IntraMove10FwdI(c, buf, i) ==
    IF i >= Len(c) - 2 THEN Out(buf, <<>>)
    ELSE LET inner == IntraMove10FwdJ(c, buf, i, i)
             rest == IntraMove10FwdI(c, RotateRight0(inner.buf, i, Len(c) - 1, 1), i + 1)
         IN  Out(rest.buf, inner.res \o rest.res)

\* Move10, second pair of loops: inner loop over j in (2..i+1).rev()
RECURSIVE IntraMove10BwdJ(_, _, _, _)
IntraMove10BwdJ(c, buf, i, j) ==
    IF j < 2 THEN Out(buf, <<>>)
    ELSE LET b == Swap0(buf, j - 1, j)
             rest == IntraMove10BwdJ(c, b, i, j - 1)
         IN  Out(rest.buf, <<Cand(b, <<At(c, i)>>)>> \o rest.res)

RECURSIVE IntraMove10BwdI(_, _, _)
IntraMove10BwdI(c, buf, i) ==
    IF i >= Len(c) - 1 THEN Out(buf, <<>>)
    ELSE LET inner == IntraMove10BwdJ(c, buf, i, i)
             rest == IntraMove10BwdI(c, RotateLeft0(inner.buf, 1, i + 1, 1), i + 1)
         IN  Out(rest.buf, inner.res \o rest.res)

\* a Move10 that stops after its first pair of loops
IntraMove10Forward(c) == IntraMove10FwdI(c, c, 1).res

IntraMove10(c) ==
    LET fwd == IntraMove10FwdI(c, c, 1)
        bwd == IntraMove10BwdI(c, fwd.buf, 2)
    IN  fwd.res \o bwd.res

RECURSIVE IntraMove11J(_, _, _, _)
IntraMove11J(c, buf, i, j) ==
    IF j >= Len(c) - 2 THEN Out(buf, <<>>)
    ELSE LET b == Swap0(Swap0(buf, j, j + 1), i, j)
             rest == IntraMove11J(c, b, i, j + 1)
         IN  Out(rest.buf, <<Cand(b, <<At(c, i), At(c, j + 1)>>)>> \o rest.res)

RECURSIVE IntraMove11I(_, _, _)
IntraMove11I(c, buf, i) ==
    IF i >= Len(c) - 2 THEN Out(buf, <<>>)
    ELSE LET inner == IntraMove11J(c, buf, i, i)
             rest == IntraMove11I(c, Swap0(inner.buf, i, Len(c) - 2), i + 1)
         IN  Out(rest.buf, inner.res \o rest.res)

IntraMove11(c) == IntraMove11I(c, c, 1).res

RECURSIVE IntraMove20FwdJ(_, _, _, _)
IntraMove20FwdJ(c, buf, i, j) ==
    IF j >= Len(c) - 2 THEN Out(buf, <<>>)
    ELSE LET b == Swap0(Swap0(buf, j, j + 1), j - 1, j)
             rest == IntraMove20FwdJ(c, b, i, j + 1)
         IN  Out(rest.buf, <<Cand(b, <<At(c, i), At(c, i + 1)>>)>> \o rest.res)

RECURSIVE IntraMove20FwdI(_, _, _)
IntraMove20FwdI(c, buf, i) ==
    IF i >= Len(c) - 3 THEN Out(buf, <<>>)
    ELSE LET inner == IntraMove20FwdJ(c, buf, i, i + 1)
             rest == IntraMove20FwdI(c, RotateRight0(inner.buf, i, Len(c) - 1, 2), i + 1)
         IN  Out(rest.buf, inner.res \o rest.res)

RECURSIVE IntraMove20BwdJ(_, _, _, _)
IntraMove20BwdJ(c, buf, i, j) ==
    IF j < 1 THEN Out(buf, <<>>)
    ELSE LET b == Swap0(Swap0(buf, j + 1, j + 2), j, j + 2)
             rest == IntraMove20BwdJ(c, b, i, j - 1)
         IN  Out(rest.buf, <<Cand(b, <<At(c, i), At(c, i + 1)>>)>> \o rest.res)

RECURSIVE IntraMove20BwdI(_, _, _)
IntraMove20BwdI(c, buf, i) ==
    IF i >= Len(c) - 2 THEN Out(buf, <<>>)
    ELSE LET inner == IntraMove20BwdJ(c, buf, i, i - 1)
             rest == IntraMove20BwdI(c, RotateLeft0(inner.buf, 1, i + 2, 2), i + 1)
         IN  Out(rest.buf, inner.res \o rest.res)

IntraMove20(c) ==
    LET fwd == IntraMove20FwdI(c, c, 1)
        bwd == IntraMove20BwdI(c, fwd.buf, 2)
    IN  fwd.res \o bwd.res

RECURSIVE IntraMove21FwdJ(_, _, _, _)
IntraMove21FwdJ(c, buf, i, j) ==
    IF j >= Len(c) - 3 THEN Out(buf, <<>>)
    ELSE LET b == Swap0(Swap0(Swap0(buf, j + 1, j + 2), j, j + 1), i, j)
             rest == IntraMove21FwdJ(c, b, i, j + 1)
         IN  Out(rest.buf,
                 <<Cand(b, <<At(c, i), At(c, i + 1), At(c, j + 2)>>)>> \o rest.res)

RECURSIVE IntraMove21FwdI(_, _, _)
IntraMove21FwdI(c, buf, i) ==
    IF i >= Len(c) - 3 THEN Out(buf, <<>>)
    ELSE LET inner == IntraMove21FwdJ(c, buf, i, i)
             restored == RotateRight0(Swap0(inner.buf, i, Len(c) - 3), i + 1, Len(c) - 1, 1)
             rest == IntraMove21FwdI(c, restored, i + 1)
         IN  Out(rest.buf, inner.res \o rest.res)

RECURSIVE IntraMove21BwdJ(_, _, _, _)
IntraMove21BwdJ(c, buf, i, j) ==
    IF j < 1 THEN Out(buf, <<>>)
    ELSE LET b == Swap0(Swap0(Swap0(buf, j + 1, j + 2), j, j + 2), j + 2, i + 1)
             rest == IntraMove21BwdJ(c, b, i, j - 1)
         IN  Out(rest.buf,
                 <<Cand(b, <<At(c, i), At(c, i + 1), At(c, j)>>)>> \o rest.res)

RECURSIVE IntraMove21BwdI(_, _, _)
IntraMove21BwdI(c, buf, i) ==
    IF i >= Len(c) - 2 THEN Out(buf, <<>>)
    ELSE LET inner == IntraMove21BwdJ(c, buf, i, i - 1)
             restored == RotateLeft0(Swap0(inner.buf, 1, i + 1), 2, i + 2, 1)
             rest == IntraMove21BwdI(c, restored, i + 1)
         IN  Out(rest.buf, inner.res \o rest.res)

IntraMove21(c) ==
    LET fwd == IntraMove21FwdI(c, c, 1)
        bwd == IntraMove21BwdI(c, fwd.buf, 2)
    IN  fwd.res \o bwd.res

RECURSIVE IntraMove22J(_, _, _, _)
IntraMove22J(c, buf, i, j) ==
    IF j >= Len(c) - 2 THEN Out(buf, <<>>)
    ELSE LET b == Swap0(Swap0(Swap0(Swap0(buf, i, i + 1), i + 1, j + 1), j, j + 1), j - 1, j)
             rest == IntraMove22J(c, b, i, j + 1)
         IN  Out(rest.buf,
                 <<Cand(b, <<At(c, i), At(c, i + 1), At(c, j), At(c, j + 1)>>)>> \o rest.res)

RECURSIVE IntraMove22I(_, _, _)
IntraMove22I(c, buf, i) ==
    \* length.saturating_sub(4)
    IF i >= (IF Len(c) >= 4 THEN Len(c) - 4 ELSE 0) THEN Out(buf, <<>>)
    ELSE LET b == Swap0(Swap0(buf, i, i + 2), i + 1, i + 3)
             first == Cand(b, <<At(c, i), At(c, i + 1), At(c, i + 2), At(c, i + 3)>>)
             inner == IntraMove22J(c, b, i, i + 3)
             restored == Swap0(Swap0(inner.buf, i, Len(c) - 3), i + 1, Len(c) - 2)
             rest == IntraMove22I(c, restored, i + 1)
         IN  Out(rest.buf, <<first>> \o inner.res \o rest.res)

IntraMove22(c) == IntraMove22I(c, c, 1).res

RECURSIVE IntraTwoOptJ(_, _, _, _)
IntraTwoOptJ(c, buf, i, j) ==
    IF j >= Len(c) - 1 THEN Out(buf, <<>>)
    ELSE LET b == RotateRight0(buf, i, j + 1, 1)
             rest == IntraTwoOptJ(c, b, i, j + 1)
         IN  Out(rest.buf, <<Cand(b, <<At(c, i), At(c, j)>>)>> \o rest.res)

RECURSIVE IntraTwoOptI(_, _, _)
IntraTwoOptI(c, buf, i) ==
    IF i >= Len(c) - 2 THEN Out(buf, <<>>)
    ELSE LET b == Swap0(buf, i, i + 1)
             first == Cand(b, <<At(c, i), At(c, i + 1)>>)
             inner == IntraTwoOptJ(c, b, i, i + 2)
             rest == IntraTwoOptI(c, Reverse0(inner.buf, i, Len(c) - 1), i + 1)
         IN  Out(rest.buf, <<first>> \o inner.res \o rest.res)

IntraTwoOpt(c) == IntraTwoOptI(c, c, 1).res

\* the final loop of _intra_route_impl: every tabu is sorted
SortTabus(res) == [p \in 1..Len(res) |-> Cand(res[p].route, Sort(res[p].tabu))]

\* NEIGHBORHOODS of solutions.rs, by index 0..5, and the ejection chain
Neighborhoods == <<"Move10", "Move11", "Move20", "Move21", "Move22", "TwoOpt">>

IntraRoute(customers, neighborhood) ==
    SortTabus(CASE neighborhood = "Move10" -> IntraMove10(customers)
                [] neighborhood = "Move11" -> IntraMove11(customers)
                [] neighborhood = "Move20" -> IntraMove20(customers)
                [] neighborhood = "Move21" -> IntraMove21(customers)
                [] neighborhood = "Move22" -> IntraMove22(customers)
                [] neighborhood = "TwoOpt" -> IntraTwoOpt(customers)
                [] OTHER -> <<>>)


----------------------------------------------------------------------------
(* Route::inter_route.  self has kind ki and customers ci, other has kind   *)
(* kj and customers cj.  A candidate is [route_i, route_j, tabu]; None is   *)
(* the empty sequence.                                                      *)

None == <<>>

Cand2(route_i, route_j, tabu) == [route_i |-> route_i, route_j |-> route_j, tabu |-> tabu]
Out2(bi, bj, res) == [res |-> res, bi |-> bi, bj |-> bj]

\* Move10: for idx_j in 1..length_j
RECURSIVE InterMove10J(_, _, _, _, _)
InterMove10J(cj, route_i, removed, bj, idx_j) ==
    IF idx_j >= Len(cj) THEN Out(bj, <<>>)
    ELSE LET rest == InterMove10J(cj, route_i, removed, Swap0(bj, idx_j, idx_j + 1), idx_j + 1)
         IN  Out(rest.buf, <<Cand2(route_i, bj, <<removed>>)>> \o rest.res)

RECURSIVE InterMove10I(_, _, _, _, _, _, _)
InterMove10I(ki, ci, kj, cj, bi, bj, idx_i) ==
    IF idx_i >= Len(ci) - 1 THEN Out2(bi, bj, <<>>)
    ELSE IF ~Servable(kj, At(ci, idx_i))
         THEN InterMove10I(ki, ci, kj, cj, bi, bj, idx_i + 1)
    ELSE LET removed == At(bi, idx_i)
             bi1 == Remove0(bi, idx_i)
             route_i == IF Len(ci) = 3 THEN None ELSE bi1
             inner == InterMove10J(cj, route_i, removed, Insert0(bj, 1, removed), 1)
             rest == InterMove10I(ki, ci, kj, cj, Insert0(bi1, idx_i, removed),
                                  Pop(inner.buf), idx_i + 1)
         IN  Out2(rest.bi, rest.bj, inner.res \o rest.res)

RECURSIVE InterMove11J(_, _, _, _, _, _, _, _)
InterMove11J(ki, ci, kj, cj, bi, bj, idx_i, idx_j) ==
    IF idx_j >= Len(cj) - 1 THEN <<>>
    ELSE IF ~Servable(ki, At(bj, idx_j))
         THEN InterMove11J(ki, ci, kj, cj, bi, bj, idx_i, idx_j + 1)
    ELSE <<Cand2(Set0(bi, idx_i, At(bj, idx_j)), Set0(bj, idx_j, At(bi, idx_i)),
                 <<At(ci, idx_i), At(cj, idx_j)>>)>>
         \o InterMove11J(ki, ci, kj, cj, bi, bj, idx_i, idx_j + 1)

RECURSIVE InterMove11I(_, _, _, _, _, _, _)
InterMove11I(ki, ci, kj, cj, bi, bj, idx_i) ==
    IF idx_i >= Len(ci) - 1 THEN Out2(bi, bj, <<>>)
    ELSE IF ~Servable(kj, At(bi, idx_i))
         THEN InterMove11I(ki, ci, kj, cj, bi, bj, idx_i + 1)
    ELSE LET rest == InterMove11I(ki, ci, kj, cj, bi, bj, idx_i + 1)
         IN  Out2(rest.bi, rest.bj,
                  InterMove11J(ki, ci, kj, cj, bi, bj, idx_i, 1) \o rest.res)

RECURSIVE InterMove20J(_, _, _, _, _, _)
InterMove20J(cj, route_i, removed_x, removed_y, bj, idx_j) ==
    IF idx_j >= Len(cj) THEN Out(bj, <<>>)
    ELSE LET moved == Swap0(Swap0(bj, idx_j + 1, idx_j + 2), idx_j, idx_j + 1)
             rest == InterMove20J(cj, route_i, removed_x, removed_y, moved, idx_j + 1)
         IN  Out(rest.buf, <<Cand2(route_i, bj, <<removed_x, removed_y>>)>> \o rest.res)

RECURSIVE InterMove20I(_, _, _, _, _, _, _)
InterMove20I(ki, ci, kj, cj, bi, bj, idx_i) ==
    IF idx_i >= Len(ci) - 2 THEN Out2(bi, bj, <<>>)
    ELSE IF ~Servable(kj, At(bi, idx_i)) \/ ~Servable(kj, At(bi, idx_i + 1))
         THEN InterMove20I(ki, ci, kj, cj, bi, bj, idx_i + 1)
    ELSE LET removed_x == At(bi, idx_i)
             removed_y == At(bi, idx_i + 1)
             bi1 == Remove0(Remove0(bi, idx_i), idx_i)
             route_i == IF Len(ci) = 4 THEN None ELSE bi1
             inner == InterMove20J(cj, route_i, removed_x, removed_y,
                                   Insert0(Insert0(bj, 1, removed_x), 2, removed_y), 1)
             rest == InterMove20I(ki, ci, kj, cj,
                                  Insert0(Insert0(bi1, idx_i, removed_x), idx_i + 1, removed_y),
                                  Pop(Pop(inner.buf)), idx_i + 1)
         IN  Out2(rest.bi, rest.bj, inner.res \o rest.res)

\* the test `Self::_servable(buffer_j[idx_j])` of the Move21 arm
Move21Servable(ki, bi, bj, idx_i, idx_j) == Servable(ki, At(bj, idx_j))

\* Move21: for idx_j in 1..length_j - 1, on both buffers
RECURSIVE InterMove21J(_, _, _, _, _, _)
InterMove21J(ki, cj, bi, bj, idx_i, idx_j) ==
    IF idx_j >= Len(cj) - 1 THEN Out2(bi, bj, <<>>)
    ELSE LET here == IF Move21Servable(ki, bi, bj, idx_i, idx_j)
                     THEN <<Cand2(bi, bj, <<At(bj, idx_j), At(bj, idx_j + 1), At(bi, idx_i)>>)>>
                     ELSE <<>>
             \* swap(&mut buffer_i[idx_i], &mut buffer_j[idx_j + 2])
             bi1 == Set0(bi, idx_i, At(bj, idx_j + 2))
             bj1 == Set0(bj, idx_j + 2, At(bi, idx_i))
             bj2 == Swap0(Swap0(bj1, idx_j + 1, idx_j + 2), idx_j, idx_j + 1)
             rest == InterMove21J(ki, cj, bi1, bj2, idx_i, idx_j + 1)
         IN  Out2(rest.bi, rest.bj, here \o rest.res)

RECURSIVE InterMove21I(_, _, _, _, _, _, _)
InterMove21I(ki, ci, kj, cj, bi, bj, idx_i) ==
    IF idx_i >= Len(ci) - 2 THEN Out2(bi, bj, <<>>)
    ELSE IF ~Servable(kj, At(bi, idx_i)) \/ ~Servable(kj, At(bi, idx_i + 1))
         THEN InterMove21I(ki, ci, kj, cj, bi, bj, idx_i + 1)
    ELSE LET Collect(inner, rest) == Out2(rest.bi, rest.bj, inner.res \o rest.res)
             \* swap(&mut buffer_i[idx_i], &mut buffer_j[length_j - 1]), then
             \* buffer_i.insert(idx_i + 1, buffer_j.pop().unwrap())
             After(inner) ==
                 Collect(inner,
                         InterMove21I(ki, ci, kj, cj,
                                      Insert0(Set0(inner.bi, idx_i, At(inner.bj, Len(cj) - 1)),
                                              idx_i + 1, At(inner.bj, Len(cj))),
                                      Pop(Set0(inner.bj, Len(cj) - 1, At(inner.bi, idx_i))),
                                      idx_i + 1))
         IN  \* swap(&mut buffer_i[idx_i], &mut buffer_j[1]), then
             \* buffer_j.insert(2, buffer_i.remove(idx_i + 1))
             After(InterMove21J(ki, cj,
                                Remove0(Set0(bi, idx_i, At(bj, 1)), idx_i + 1),
                                Insert0(Set0(bj, 1, At(bi, idx_i)), 2, At(bi, idx_i + 1)),
                                idx_i, 1))

RECURSIVE InterMove22J(_, _, _, _, _, _, _, _)
InterMove22J(ki, ci, kj, cj, bi, bj, idx_i, idx_j) ==
    IF idx_j >= Len(cj) - 2 THEN <<>>
    ELSE IF ~Servable(ki, At(bj, idx_j)) \/ ~Servable(ki, At(bj, idx_j + 1))
         THEN InterMove22J(ki, ci, kj, cj, bi, bj, idx_i, idx_j + 1)
    ELSE LET bi1 == Set0(Set0(bi, idx_i, At(bj, idx_j)), idx_i + 1, At(bj, idx_j + 1))
             bj1 == Set0(Set0(bj, idx_j, At(bi, idx_i)), idx_j + 1, At(bi, idx_i + 1))
         IN  <<Cand2(bi1, bj1, <<At(bi1, idx_i), At(bi1, idx_i + 1),
                                 At(bj1, idx_j), At(bj1, idx_j + 1)>>)>>
             \o InterMove22J(ki, ci, kj, cj, bi, bj, idx_i, idx_j + 1)

RECURSIVE InterMove22I(_, _, _, _, _, _, _)
InterMove22I(ki, ci, kj, cj, bi, bj, idx_i) ==
    IF idx_i >= Len(ci) - 2 THEN Out2(bi, bj, <<>>)
    ELSE IF ~Servable(kj, At(bi, idx_i)) \/ ~Servable(kj, At(bi, idx_i + 1))
         THEN InterMove22I(ki, ci, kj, cj, bi, bj, idx_i + 1)
    ELSE LET rest == InterMove22I(ki, ci, kj, cj, bi, bj, idx_i + 1)
         IN  Out2(rest.bi, rest.bj,
                  InterMove22J(ki, ci, kj, cj, bi, bj, idx_i, 1) \o rest.res)

\* TwoOpt: while offset > 1 && servable(buffer[offset - 1]) { offset -= 1 }
RECURSIVE TwoOptOffset(_, _, _)
TwoOptOffset(kind, buf, offset) ==
    IF offset > 1 /\ Servable(kind, At(buf, offset - 1))
    THEN TwoOptOffset(kind, buf, offset - 1)
    ELSE offset

RECURSIVE InterTwoOptJ(_, _, _, _)
InterTwoOptJ(ci, cj, idx_i, idx_j) ==
    IF idx_j >= Len(cj) - 1 THEN <<>>
    ELSE LET buffer_i == Slice0(ci, 0, idx_i) \o Slice0(cj, idx_j, Len(cj))
             buffer_j == Slice0(cj, 0, idx_j) \o Slice0(ci, idx_i, Len(ci))
         IN  <<Cand2(buffer_i, buffer_j, <<At(buffer_i, idx_i), At(buffer_j, idx_j)>>)>>
             \o InterTwoOptJ(ci, cj, idx_i, idx_j + 1)

RECURSIVE InterTwoOptI(_, _, _, _)
InterTwoOptI(ci, cj, offset_j, idx_i) ==
    IF idx_i >= Len(ci) - 1 THEN <<>>
    ELSE InterTwoOptJ(ci, cj, idx_i, offset_j) \o InterTwoOptI(ci, cj, offset_j, idx_i + 1)

InterTwoOpt(ki, ci, kj, cj) ==
    InterTwoOptI(ci, cj, TwoOptOffset(ki, cj, Len(cj) - 1), TwoOptOffset(kj, ci, Len(ci) - 1))

InterRoute(ki, ci, kj, cj, neighborhood) ==
    CASE neighborhood = "Move10" -> InterMove10I(ki, ci, kj, cj, ci, cj, 1).res
      [] neighborhood = "Move11" -> InterMove11I(ki, ci, kj, cj, ci, cj, 1).res
      [] neighborhood = "Move20" -> InterMove20I(ki, ci, kj, cj, ci, cj, 1).res
      [] neighborhood = "Move21" -> InterMove21I(ki, ci, kj, cj, ci, cj, 1).res
      [] neighborhood = "Move22" -> InterMove22I(ki, ci, kj, cj, ci, cj, 1).res
      [] neighborhood = "TwoOpt" -> InterTwoOpt(ki, ci, kj, cj)
      [] OTHER -> <<>>

\* Route::inter_route_extract::<T>, T of kind kj; queue is the VecDeque
RECURSIVE InterRouteExtractFrom(_, _, _, _, _)
InterRouteExtractFrom(customers, kj, size, fifo, i) ==
    IF i >= Len(customers) - 1 THEN <<>>
    ELSE IF Servable(kj, At(customers, i))
    THEN LET pushed == Append(fifo, At(customers, i))
             q == IF Len(pushed) > size THEN Tail(pushed) ELSE pushed
             here == IF Len(q) = size
                     THEN <<Cand2(Slice0(customers, 0, i - size + 1)
                                      \o Slice0(customers, i + 1, Len(customers)),
                                  <<0>> \o q \o <<0>>,
                                  Slice0(customers, i - size + 1, i + 1))>>
                     ELSE <<>>
         IN  here \o InterRouteExtractFrom(customers, kj, size, q, i + 1)
    ELSE InterRouteExtractFrom(customers, kj, size, <<>>, i + 1)

InterRouteExtract(customers, kj, neighborhood) ==
    LET size == CASE neighborhood = "Move10" -> 1
                  [] neighborhood = "Move20" -> 2
                  [] OTHER -> 0
    IN  IF size = 0 \/ Len(customers) - 2 <= size THEN <<>>
        ELSE InterRouteExtractFrom(customers, kj, size, <<>>, 1)


----------------------------------------------------------------------------
(* Solution (solutions.rs).  A route is its customer sequence; the route    *)
(* lists are indexed by vehicle.                                            *)

\* the sums of the values of the first n routes of one vehicle
RECURSIVE VehicleData(_, _, _)
VehicleData(kind, routes, n) ==
    IF n = 0
    THEN [working_time |-> 0, capacity_violation |-> 0, waiting_time_violation |-> 0,
          energy_violation |-> 0, fixed_time_violation |-> 0]
    ELSE LET Sum(acc, route) ==
                 [working_time |-> acc.working_time + route.working_time,
                  capacity_violation |-> acc.capacity_violation + route.capacity_violation,
                  waiting_time_violation |->
                      acc.waiting_time_violation + route.waiting_time_violation,
                  energy_violation |-> acc.energy_violation + route.energy_violation,
                  fixed_time_violation |->
                      acc.fixed_time_violation + route.fixed_time_violation]
         IN  Sum(VehicleData(kind, routes, n - 1), RouteData(kind, routes[n]))

\* the values of the vehicles of one kind, each the sum over its routes
FleetData(kind, fleet) ==
    [v \in 1..Len(fleet) |-> VehicleData(kind, fleet[v], Len(fleet[v]))]

\* the sum, or the maximum with 0, of the first n of a sequence of numbers
RECURSIVE Fold(_, _, _)
Fold(values, n, is_max) ==
    IF n = 0 THEN 0
    ELSE LET Step(acc) == IF is_max THEN (IF acc < values[n] THEN values[n] ELSE acc)
                          ELSE acc + values[n]
         IN  Step(Fold(values, n - 1, is_max))

\* Solution::new
SolutionNew(truck_routes_, drone_routes_) ==
    LET Total(values) == Fold(values, Len(values), FALSE)
        Longest(values) == Fold(values, Len(values), TRUE)
        Build(trucks, drones) ==
            LET Solution(working_time, energy_violation, capacity_violation,
                         waiting_time_violation, fixed_time_violation) ==
                    [truck_routes |-> truck_routes_,
                     drone_routes |-> drone_routes_,
                     truck_working_time |->
                         [v \in 1..Len(trucks) |-> RInt(trucks[v].working_time)],
                     drone_working_time |->
                         [v \in 1..Len(drones) |-> RInt(drones[v].working_time)],
                     working_time |-> working_time,
                     energy_violation |-> energy_violation,
                     capacity_violation |-> capacity_violation,
                     waiting_time_violation |-> waiting_time_violation,
                     fixed_time_violation |-> fixed_time_violation,
                     feasible |-> /\ energy_violation = RZero
                                  /\ capacity_violation = RZero
                                  /\ waiting_time_violation = RZero
                                  /\ fixed_time_violation = RZero]
            IN  Solution(
                    RInt(Longest([v \in 1..Len(trucks) |-> trucks[v].working_time]
                                 \o [v \in 1..Len(drones) |-> drones[v].working_time])),
                    RNorm(Total([v \in 1..Len(drones) |-> drones[v].energy_violation]),
                          DroneBattery),
                    RAdd(RNorm(Total([v \in 1..Len(trucks) |-> trucks[v].capacity_violation]),
                               cfg.truck_capacity),
                         RNorm(Total([v \in 1..Len(drones) |-> drones[v].capacity_violation]),
                               cfg.drone_capacity)),
                    RNorm(Total([v \in 1..Len(trucks) |-> trucks[v].waiting_time_violation]
                                \o [v \in 1..Len(drones) |->
                                        drones[v].waiting_time_violation]),
                          cfg.waiting_time_limit),
                    RNorm(Total([v \in 1..Len(drones) |-> drones[v].fixed_time_violation]),
                          cfg.drone_fixed_time))
    IN  Build(FleetData("truck", truck_routes_), FleetData("drone", drone_routes_))

\* Solution::cost under the coefficients coeff, with penalty_exponent = 1
CostWith(s, coeff) ==
    RMul(s.working_time,
         RAdd(RAdd(RAdd(RAdd(RInt(1), RMul(coeff[1], s.energy_violation)),
                        RMul(coeff[2], s.capacity_violation)),
                   RMul(coeff[3], s.waiting_time_violation)),
              RMul(coeff[4], s.fixed_time_violation)))

\* Solution::cost, reading PENALTY_COEFF
Cost(s) == CostWith(s, penalty)

\* the interior customers of all routes of a solution, with repetitions
Served(s) ==
    LET Interior(r) == SubSeq(r, 2, Len(r) - 1)
        OfVehicle(routes) == Concat([i \in 1..Len(routes) |-> Interior(routes[i])])
        OfFleet(vehicles) == Concat([v \in 1..Len(vehicles) |-> OfVehicle(vehicles[v])])
    IN  OfFleet(s.truck_routes) \o OfFleet(s.drone_routes)

\* Solution::hamming_distance
HammingDistance(a, b) ==
    LET Succ(s, c) ==
            LET all == Concat(s.truck_routes) \o Concat(s.drone_routes)
                hits == UNION {{<<i, p>> : p \in {q \in 2..(Len(all[i]) - 1) : all[i][q] = c}} :
                               i \in 1..Len(all)}
            IN  IF hits = {} THEN 0
                ELSE LET h == CHOOSE h \in hits :
                                 \A g \in hits : g[1] < h[1] \/ (g[1] = h[1] /\ g[2] <= h[2])
                     IN  all[h[1]][h[2] + 1]
    IN  Cardinality({c \in 0..cfg.customers_count : Succ(a, c) # Succ(b, c)})

\* one loop of Neighborhood::_find_decisive_vehicle over the working times of a
\* fleet; best = [set, max_time, vehicle, is_truck], set = FALSE for f64::MIN
RECURSIVE DecisiveScan(_, _, _, _)
DecisiveScan(times, is_truck, i, best) ==
    IF i > Len(times) THEN best
    ELSE DecisiveScan(times, is_truck, i + 1,
             IF ~best.set \/ RLess(best.max_time, times[i])
             THEN [set |-> TRUE, max_time |-> times[i], vehicle |-> i - 1, is_truck |-> is_truck]
             ELSE best)

\* Neighborhood::_find_decisive_vehicle: [vehicle, is_truck]
FindDecisiveVehicle(solution) ==
    LET start == [set |-> FALSE, max_time |-> RZero, vehicle |-> 0, is_truck |-> TRUE]
        best == DecisiveScan(solution.drone_working_time, FALSE, 1,
                             DecisiveScan(solution.truck_working_time, TRUE, 1, start))
    IN  [vehicle |-> best.vehicle, is_truck |-> best.is_truck]

----------------------------------------------------------------------------
(* The orchestrator (neighborhoods.rs).  The working copy of the route      *)
(* lists is the record [truck_routes, drone_routes]; every candidate is     *)
(* applied to it, evaluated with Solution::new and undone.                  *)

\* concatenation of F(1), ..., F(n): a `for` loop that collects
FlatMap(n, F(_)) == Concat([i \in 1..n |-> F(i)])

\* Route::get_correct_route
GetCorrectRoute(kind, truck_routes_, drone_routes_) ==
    IF kind = "truck" THEN truck_routes_ ELSE drone_routes_

\* Route::get_correct_route_mut followed by an assignment to one vehicle's list
SetVehicleRoutes(w, kind, vehicle, routes) ==
    IF kind = "truck"
    THEN [w EXCEPT !.truck_routes = Set0(w.truck_routes, vehicle, routes)]
    ELSE [w EXCEPT !.drone_routes = Set0(w.drone_routes, vehicle, routes)]

VehicleRoutes(w, kind, vehicle) ==
    At(GetCorrectRoute(kind, w.truck_routes, w.drone_routes), vehicle)

\* Route::single_customer: a drone route may be limited to one customer
SingleCustomer(kind) == kind = "drone" /\ cfg.single_drone_route

\* Route::single_route: a truck may be limited to one route
SingleRoute(kind) == kind = "truck" /\ cfg.single_truck_route

\* a restoration that forgets the route it removed
SwapPushNothing(vec, index, element) == vec

\* _swap_push
SwapPush(vec, index, element) == Swap0(Append(vec, element), index, Len(vec))

\* the neighbourhoods whose reverse direction r_j.inter_route(r_i) is added
Asymmetric(neighborhood) == neighborhood \in {"Move10", "Move20", "Move21"}

\* the decisive vehicle as [kind, vehicle, routes]
Decisive(solution) ==
    LET Of(d, kind) == [kind |-> kind, vehicle |-> d.vehicle,
                        routes |-> VehicleRoutes(solution, kind, d.vehicle)]
        Kind(d) == Of(d, IF d.is_truck THEN "truck" ELSE "drone")
    IN  Kind(FindDecisiveVehicle(solution))

\* the candidates of Neighborhood::intra_route, in order of evaluation
IntraMoves(solution, neighborhood) ==
    LET Moves(d, i, found) ==
            [c \in 1..Len(found) |->
                [type |-> "intra", kind_i |-> d.kind, vehicle_i |-> d.vehicle,
                 route_idx_i |-> i - 1, route_i |-> d.routes[i],
                 new_route_i |-> found[c].route, tabu |-> found[c].tabu]]
        OfVehicle(d) ==
            FlatMap(Len(d.routes), LAMBDA i :
                Moves(d, i, IntraRoute(d.routes[i], neighborhood)))
    IN  OfVehicle(Decisive(solution))

\* the candidates of Neighborhood::_inter_route_internal, in order of evaluation
InterMoves(solution, neighborhood) ==
    LET \* r_i.inter_route(r_j), and r_j.inter_route(r_i) with its routes swapped
        Neighbors(ki, route_i, kj, route_j) ==
            FlatMap(IF Asymmetric(neighborhood) THEN 2 ELSE 1, LAMBDA dir :
                LET Turned(found) ==
                        [c \in 1..Len(found) |->
                            IF dir = 1 THEN found[c]
                            ELSE Cand2(found[c].route_j, found[c].route_i, found[c].tabu)]
                IN  Turned(InterRoute(IF dir = 1 THEN ki ELSE kj,
                                      IF dir = 1 THEN route_i ELSE route_j,
                                      IF dir = 1 THEN kj ELSE ki,
                                      IF dir = 1 THEN route_j ELSE route_i,
                                      neighborhood)))
        Skipped(ki, kj, n) ==
            \/ n.route_i # None /\ SingleCustomer(ki) /\ Len(n.route_i) # 3
            \/ n.route_j # None /\ SingleCustomer(kj) /\ Len(n.route_j) # 3
        Moves(d, i, kj, vj, j, routes_j, neighbors) ==
            FlatMap(Len(neighbors), LAMBDA c :
                IF Skipped(d.kind, kj, neighbors[c]) THEN <<>>
                ELSE <<[type |-> "inter", kind_i |-> d.kind, vehicle_i |-> d.vehicle,
                        route_idx_i |-> i - 1, route_i |-> d.routes[i],
                        kind_j |-> kj, vehicle_j |-> vj - 1,
                        route_idx_j |-> j - 1, route_j |-> routes_j[j],
                        new_route_i |-> neighbors[c].route_i,
                        new_route_j |-> neighbors[c].route_j,
                        \* ptr::addr_eq(routes_i, routes_j) && route_idx_j == routes_j.len() - 1
                        same_last |-> d.kind = kj /\ d.vehicle = vj - 1 /\ j = Len(routes_j),
                        tabu |-> neighbors[c].tabu]>>)
        OfPair(d, i, kj, vj, j, routes_j) ==
            IF d.routes[i][2] = routes_j[j][2] THEN <<>>
            ELSE Moves(d, i, kj, vj, j, routes_j,
                       Neighbors(d.kind, d.routes[i], kj, routes_j[j]))
        OfVehicle(d) ==
            FlatMap(Len(d.routes), LAMBDA i :
            FlatMap(2, LAMBDA k :
            FlatMap(Len(GetCorrectRoute(Kinds[k], solution.truck_routes, solution.drone_routes)),
                    LAMBDA vj :
            FlatMap(Len(VehicleRoutes(solution, Kinds[k], vj - 1)), LAMBDA j :
                    OfPair(d, i, Kinds[k], vj, j, VehicleRoutes(solution, Kinds[k], vj - 1))))))
    IN  OfVehicle(Decisive(solution))

\* the candidates of Neighborhood::_inter_route_extract_internal
ExtractMoves(solution, neighborhood) ==
    LET Moves(d, i, kj, original_routes_j, found) ==
            FlatMap(Len(found), LAMBDA c :
                IF SingleCustomer(kj) /\ Len(found[c].route_j) # 3 THEN <<>>
                ELSE FlatMap(Len(original_routes_j), LAMBDA vj :
                        IF SingleRoute(kj) /\ original_routes_j[vj] # <<>> THEN <<>>
                        ELSE <<[type |-> "extract", kind_i |-> d.kind, vehicle_i |-> d.vehicle,
                                route_idx_i |-> i - 1, route_i |-> d.routes[i],
                                kind_j |-> kj, vehicle_j |-> vj - 1,
                                new_route_i |-> found[c].route_i,
                                new_route_j |-> found[c].route_j,
                                tabu |-> found[c].tabu]>>))
        OfVehicle(d) ==
            FlatMap(Len(d.routes), LAMBDA i : FlatMap(2, LAMBDA k :
                Moves(d, i, Kinds[k],
                      GetCorrectRoute(Kinds[k], solution.truck_routes, solution.drone_routes),
                      InterRouteExtract(d.routes[i], Kinds[k], neighborhood))))
    IN  OfVehicle(Decisive(solution))


\* Route::inter_route_3: customer a of r_i takes the place of customer b of
\* r_j while b is inserted into r_k; the tabu attribute is <<a, b>>
InterRoute3(ki, ri, kj, rj, kk, rk) ==
    FlatMap(Len(ri) - 2, LAMBDA pa :
        IF ~Servable(kj, At(ri, pa)) THEN <<>>
        ELSE FlatMap(Len(rj) - 2, LAMBDA pb :
            IF ~Servable(kk, At(rj, pb)) THEN <<>>
            ELSE [pk \in 1..(Len(rk) - 1) |->
                    [route_i |-> IF Len(ri) = 3 THEN None ELSE Remove0(ri, pa),
                     route_j |-> Set0(rj, pb, At(ri, pa)),
                     route_k |-> Insert0(rk, pk, At(rj, pb)),
                     tabu |-> <<At(ri, pa), At(rj, pb)>>]]))

\* the candidates of Neighborhood::_ejection_chain_internal::<DR, RI>
EjectionMoves(solution, ki) ==
    LET Fleet(kind) == GetCorrectRoute(kind, solution.truck_routes, solution.drone_routes)
        Moves(vi, i, kj, vj, j, kk, vk, k, route_i, route_j, route_k, neighbors) ==
            FlatMap(Len(neighbors), LAMBDA c :
                IF SingleCustomer(kk) /\ Len(neighbors[c].route_k) # 3 THEN <<>>
                ELSE <<[type |-> "eject", kind_i |-> ki, vehicle_i |-> vi - 1,
                        route_idx_i |-> i - 1, route_i |-> route_i,
                        kind_j |-> kj, vehicle_j |-> vj - 1,
                        route_idx_j |-> j - 1, route_j |-> route_j,
                        kind_k |-> kk, vehicle_k |-> vk - 1,
                        route_idx_k |-> k - 1, route_k |-> route_k,
                        new_route_i |-> neighbors[c].route_i,
                        new_route_j |-> neighbors[c].route_j,
                        new_route_k |-> neighbors[c].route_k,
                        tabu |-> neighbors[c].tabu]>>)
        OfTriple(vi, i, kj, vj, j, kk, vk, k, route_i, route_j, route_k) ==
            IF route_i[2] = route_k[2] \/ route_j[2] = route_k[2] THEN <<>>
            ELSE Moves(vi, i, kj, vj, j, kk, vk, k, route_i, route_j, route_k,
                       InterRoute3(ki, route_i, kj, route_j, kk, route_k))
        OfPair(vi, i, kj, vj, j, route_i, route_j) ==
            IF route_i[2] = route_j[2] THEN <<>>
            ELSE FlatMap(2, LAMBDA t :
                 FlatMap(Len(Fleet(Kinds[t])), LAMBDA vk :
                 FlatMap(Len(Fleet(Kinds[t])[vk]), LAMBDA k :
                         OfTriple(vi, i, kj, vj, j, Kinds[t], vk, k,
                                  route_i, route_j, Fleet(Kinds[t])[vk][k]))))
        OfVehicle(d) ==
            FlatMap(Len(Fleet(ki)), LAMBDA vi :
            FlatMap(Len(Fleet(ki)[vi]), LAMBDA i :
            FlatMap(2, LAMBDA t :
            FlatMap(Len(Fleet(Kinds[t])), LAMBDA vj :
                \* either i or j must be the decisive vehicle
                IF \/ d.kind = ki /\ d.vehicle = vi - 1
                   \/ d.kind = Kinds[t] /\ d.vehicle = vj - 1
                THEN FlatMap(Len(Fleet(Kinds[t])[vj]), LAMBDA j :
                         OfPair(vi, i, Kinds[t], vj, j,
                                Fleet(ki)[vi][i], Fleet(Kinds[t])[vj][j]))
                ELSE <<>>))))
    IN  OfVehicle(Decisive(solution))

\* the temporary assignment of a candidate's routes to the working copy
Apply(w, m) ==
    LET routes_i == VehicleRoutes(w, m.kind_i, m.vehicle_i)
        SetI(v) == SetVehicleRoutes(v, m.kind_i, m.vehicle_i,
                       IF m.new_route_i # None
                       THEN Set0(VehicleRoutes(v, m.kind_i, m.vehicle_i), m.route_idx_i, m.new_route_i)
                       ELSE SwapRemove0(VehicleRoutes(v, m.kind_i, m.vehicle_i), m.route_idx_i))
    IN  CASE m.type = "intra" -> SetI(w)
          [] m.type = "inter" ->
                LET w1 == SetI(w)
                    idx_j == IF m.new_route_i = None /\ m.same_last
                             THEN m.route_idx_i ELSE m.route_idx_j
                    routes_j == VehicleRoutes(w1, m.kind_j, m.vehicle_j)
                IN  SetVehicleRoutes(w1, m.kind_j, m.vehicle_j,
                        IF m.new_route_j # None THEN Set0(routes_j, idx_j, m.new_route_j)
                        ELSE SwapRemove0(routes_j, idx_j))
          [] m.type = "extract" ->
                LET w1 == SetI(w)
                IN  SetVehicleRoutes(w1, m.kind_j, m.vehicle_j,
                        Append(VehicleRoutes(w1, m.kind_j, m.vehicle_j), m.new_route_j))
          [] m.type = "eject" ->
                LET w1 == SetVehicleRoutes(w, m.kind_k, m.vehicle_k,
                              Set0(VehicleRoutes(w, m.kind_k, m.vehicle_k), m.route_idx_k, m.new_route_k))
                    w2 == SetVehicleRoutes(w1, m.kind_j, m.vehicle_j,
                              Set0(VehicleRoutes(w1, m.kind_j, m.vehicle_j), m.route_idx_j, m.new_route_j))
                IN  SetI(w2)

\* a restoration that leaves the candidate's routes in the working copy
RestoreNothing(w, m) == w

\* the restoration of the working copy after a candidate was evaluated
Restore(w, m) ==
    LET ResetI(v) == SetVehicleRoutes(v, m.kind_i, m.vehicle_i,
                         IF m.new_route_i # None
                         THEN Set0(VehicleRoutes(v, m.kind_i, m.vehicle_i), m.route_idx_i, m.route_i)
                         ELSE SwapPush(VehicleRoutes(v, m.kind_i, m.vehicle_i), m.route_idx_i, m.route_i))
    IN  CASE m.type = "intra" -> ResetI(w)
          [] m.type = "inter" ->
                LET idx_j == IF m.new_route_i = None /\ m.same_last
                             THEN m.route_idx_i ELSE m.route_idx_j
                    routes_j == VehicleRoutes(w, m.kind_j, m.vehicle_j)
                IN  ResetI(SetVehicleRoutes(w, m.kind_j, m.vehicle_j,
                        IF m.new_route_j # None THEN Set0(routes_j, idx_j, m.route_j)
                        ELSE SwapPush(routes_j, idx_j, m.route_j)))
          [] m.type = "extract" ->
                ResetI(SetVehicleRoutes(w, m.kind_j, m.vehicle_j,
                           Pop(VehicleRoutes(w, m.kind_j, m.vehicle_j))))
          [] m.type = "eject" ->
                LET w1 == ResetI(w)
                    w2 == SetVehicleRoutes(w1, m.kind_j, m.vehicle_j,
                              Set0(VehicleRoutes(w1, m.kind_j, m.vehicle_j), m.route_idx_j, m.route_j))
                IN  SetVehicleRoutes(w2, m.kind_k, m.vehicle_k,
                        Set0(VehicleRoutes(w2, m.kind_k, m.vehicle_k), m.route_idx_k, m.route_k))

\* the evaluation loop over moves[lo..hi] on the working copy w: applied[k] is
\* the working copy with candidate k assigned, w the one the loop leaves
RECURSIVE ApplyRange(_, _, _, _)
ApplyRange(w, moves, lo, hi) ==
    IF lo > hi THEN [applied |-> <<>>, w |-> w]
    ELSE IF lo = hi
    THEN LET One(applied) == [applied |-> <<applied>>, w |-> Restore(applied, moves[lo])]
         IN  One(Apply(w, moves[lo]))
    ELSE LET Join(first, second) ==
                 [applied |-> first.applied \o second.applied, w |-> second.w]
             Then(first) == Join(first, ApplyRange(first.w, moves, (lo + hi) \div 2 + 1, hi))
         IN  Then(ApplyRange(w, moves, lo, (lo + hi) \div 2))

\* a neighbour: the solution, the tabu attribute of its move and s.cost()
Neighbor(solution, tabu) == [solution |-> solution, tabu |-> tabu, cost |-> Cost(solution)]

\* every candidate is assigned to the working copy, built with Solution::new
\* and undone; returns the neighbours and the working copy the loop leaves
Evaluate(w0, moves) ==
    LET Built(loop) ==
            [w |-> loop.w,
             cands |-> [k \in 1..Len(moves) |->
                          Neighbor(SolutionNew(loop.applied[k].truck_routes,
                                               loop.applied[k].drone_routes),
                                   moves[k].tabu)]]
    IN  Built(ApplyRange(w0, moves, 1, Len(moves)))

WorkingCopy(solution) ==
    [truck_routes |-> solution.truck_routes, drone_routes |-> solution.drone_routes]


\* Neighborhood::_internal_update on the state [aspiration_cost, min_cost,
\* require_feasible, result] of one pass
InternalUpdate(state, tabu_list, neighbor) ==
    LET Update(new_best_global_solution) ==
            IF \/ new_best_global_solution
               \/ (~Contains(tabu_list, neighbor.tabu) /\ RLess(neighbor.cost, state.min_cost))
            THEN [min_cost |-> neighbor.cost,
                  result |-> [solution |-> neighbor.solution, tabu |-> neighbor.tabu],
                  aspiration_cost |-> IF new_best_global_solution THEN neighbor.cost
                                      ELSE state.aspiration_cost,
                  require_feasible |-> new_best_global_solution \/ state.require_feasible]
            ELSE state
    IN  IF state.require_feasible /\ ~neighbor.solution.feasible THEN state
        ELSE Update(RLess(neighbor.cost, state.aspiration_cost) /\ neighbor.solution.feasible)

\* the state of a pass after the neighbours cands[lo..hi]
RECURSIVE UpdateRange(_, _, _, _, _)
UpdateRange(state, tabu_list, cands, lo, hi) ==
    IF lo > hi THEN state
    ELSE IF lo = hi THEN InternalUpdate(state, tabu_list, cands[lo])
    ELSE Let(UpdateRange(state, tabu_list, cands, lo, (lo + hi) \div 2), LAMBDA first :
             UpdateRange(first, tabu_list, cands, (lo + hi) \div 2 + 1, hi))

\* one pass (intra_route or inter_route) over its neighbours: the returned pair
PassResult(solution, tabu_list, aspiration_cost, cands) ==
    UpdateRange([min_cost |-> RMaxValue,
                 result |-> [solution |-> solution, tabu |-> <<>>],
                 aspiration_cost |-> aspiration_cost,
                 require_feasible |-> FALSE],
                tabu_list, cands, 1, Len(cands)).result

\* the moves of Neighborhood::intra_route (pass 1) and of
\* Neighborhood::inter_route (pass 2), in order of evaluation
PassMoves(solution, neighborhood, pass) ==
    IF pass = 1 THEN IntraMoves(solution, neighborhood)
    ELSE IF neighborhood = "EjectionChain"
    THEN FlatMap(2, LAMBDA k : EjectionMoves(solution, Kinds[k]))
    ELSE InterMoves(solution, neighborhood) \o ExtractMoves(solution, neighborhood)

\* the neighbours evaluated by the two passes, <<intra, inter>>
Candidates(solution, neighborhood) ==
    [pass \in 1..2 |->
        Let(PassMoves(solution, neighborhood, pass), LAMBDA moves :
            Evaluate(WorkingCopy(solution), moves).cands)]

\* the choice between the two passes in Neighborhood::search
ChoosePass(intra, inter) ==
    IF intra.tabu = <<>> THEN inter
    ELSE IF inter.tabu = <<>> THEN intra
    ELSE IF RLess(Cost(intra.solution), Cost(inter.solution)) THEN intra
    ELSE inter

\* a maintenance that drops the newest entry of a full list
TabuUpdateDropsNewest(tabu_list, tabu, tabu_size_) ==
    IF Contains(tabu_list, tabu)
    THEN RotateLeft0(tabu_list, Position(tabu_list, tabu), Len(tabu_list), 1)
    ELSE IF Len(tabu_list) + 1 > tabu_size_ THEN tabu_list ELSE Append(tabu_list, tabu)

\* the maintenance of the tabu list at the end of Neighborhood::search
TabuUpdate(tabu_list, tabu, tabu_size_) ==
    LET Updated(index, pushed) ==
            IF index < Len(tabu_list)
            THEN RotateLeft0(tabu_list, index, Len(tabu_list), 1)
            ELSE IF Len(pushed) > tabu_size_ THEN Remove0(pushed, 0) ELSE pushed
    IN  Updated(Position(tabu_list, tabu), Append(tabu_list, tabu))

\* Neighborhood::search on given neighbours: [some, solution, tabu, tabu_list]
SearchOn(solution, cands, tabu_list, tabu_size_, aspiration_cost) ==
    LET Found(chosen, tabu) ==
            IF chosen.tabu = <<>>
            THEN [some |-> FALSE, solution |-> solution, tabu |-> <<>>,
                  tabu_list |-> tabu_list]
            ELSE [some |-> TRUE, solution |-> chosen.solution, tabu |-> tabu,
                  tabu_list |-> TabuUpdate(tabu_list, tabu, tabu_size_)]
        Sorted(chosen) == Found(chosen, Sort(chosen.tabu))
        Choice(passes) == Sorted(ChoosePass(passes[1], passes[2]))
    IN  Choice([pass \in 1..2 |->
                   PassResult(solution, tabu_list, aspiration_cost, cands[pass])])

\* Neighborhood::search
Search(solution, neighborhood, tabu_list, tabu_size_, aspiration_cost) ==
    Let(Candidates(solution, neighborhood), LAMBDA cands :
        SearchOn(solution, cands, tabu_list, tabu_size_, aspiration_cost))


----------------------------------------------------------------------------
(* Solution::initialize (solutions.rs), one action per step of its loop.    *)

\* _feasible
Feasible(truck_routes_, drone_routes_) == SolutionNew(truck_routes_, drone_routes_).feasible

\* vec![vec![]; n]
EmptyLists(n) == [v \in 1..n |-> <<>>]

\* the truckable bits, indexed by customer
TruckableBits ==
    [c \in 0..cfg.customers_count |->
        IF cfg.trucks_count = 0 THEN FALSE
        ELSE IF c = 0 THEN TRUE
        ELSE Feasible(Set0(EmptyLists(cfg.trucks_count), 0, <<Single(c)>>),
                      EmptyLists(cfg.trucks_count))]

\* the local dronable bits, indexed by customer
DronableBits ==
    [c \in 0..cfg.customers_count |->
        IF cfg.drones_count = 0 THEN FALSE
        ELSE IF c = 0 THEN TRUE
        ELSE /\ At(cfg.dronable, c)
             /\ Feasible(EmptyLists(cfg.trucks_count),
                         Set0(EmptyLists(cfg.trucks_count), 0, <<Single(c)>>))]

\* clusterize::clusterize: cluster_count disjoint lists that cover 1..customers_count;
\* the list of no cluster when cluster_count is 0
Clusterings ==
    IF cfg.trucks_count = 0 THEN {<<>>} ELSE
    {[i \in 1..cfg.trucks_count |->
        LET members == {c \in 1..cfg.customers_count : assign[c] = i}
            ordered[k \in 0..cfg.customers_count] ==
                IF k = 0 THEN <<>>
                ELSE IF k \in members THEN Append(ordered[k - 1], k) ELSE ordered[k - 1]
        IN  ordered[cfg.customers_count]] :
     assign \in [1..cfg.customers_count -> 1..cfg.trucks_count]}

\* the outcomes of cluster.shuffle(&mut rng)
Shuffles(cluster) ==
    {[p \in 1..Len(cluster) |-> cluster[f[p]]] :
        f \in {g \in [1..Len(cluster) -> 1..Len(cluster)] :
                  \A a, b \in 1..Len(cluster) : a # b => g[a] # g[b]}}

\* cluster.sort_by(drone_distances[0][i] cmp drone_distances[0][j]), a stable sort
RECURSIVE SortByDepotDistance(_)
SortByDepotDistance(cluster) ==
    IF cluster = <<>> THEN <<>>
    ELSE LET sorted == SortByDepotDistance(Pop(cluster))
             last == cluster[Len(cluster)]
             before == {p \in 1..Len(sorted) : Distance(0, sorted[p]) <= Distance(0, last)}
         IN  Insert0(sorted, Cardinality(before), last)

\* the two pushes of the seeding loop for cluster i (0-based), shuffled as given
Seeds(i, shuffled) ==
    LET sorted == SortByDepotDistance(shuffled)
        truck == IF \E p \in 1..Len(shuffled) : truckable'[shuffled[p]]
                 THEN <<[working_time |-> RZero, vehicle |-> i, parent |-> 0,
                         index |-> shuffled[1], is_truck |-> TRUE]>>
                 ELSE <<>>
        drone == IF \E p \in 1..Len(sorted) : dronableInit'[sorted[p]]
                 THEN <<[working_time |-> RZero, vehicle |-> i, parent |-> 0,
                         index |-> sorted[1], is_truck |-> FALSE]>>
                 ELSE <<>>
    IN  truck \o drone

\* all ways to shuffle every cluster
RECURSIVE ShuffleAll(_)
ShuffleAll(cs) ==
    IF cs = <<>> THEN {<<>>}
    ELSE {<<h>> \o t : h \in Shuffles(cs[1]), t \in ShuffleAll(Tail(cs))}

\* drone_routes[0] of the dronable loop does not exist: drone_routes has
\* trucks_count lists
DroneListsMissing ==
    /\ cfg.drones_count > 0
    /\ cfg.trucks_count = 0
    /\ \E c \in 1..cfg.customers_count : At(cfg.dronable, c)

\* initialize up to the insertion loop: clustering, truckable and dronable
\* bits, the check that every customer can be served, and the seeding
InitializeStart ==
    /\ pc = "initialize"
    /\ truckable' = TruckableBits
    /\ dronableInit' = DronableBits
    /\ \E clustering \in Clusterings : \E shuffled \in ShuffleAll(clustering) :
        /\ clusters' = [i \in 1..Len(shuffled) |-> SortByDepotDistance(shuffled[i])]
        /\ clusters_mapping' = [c \in 0..cfg.customers_count |->
                                   IF c = 0 \/ clustering = <<>> THEN 0
                                   ELSE (CHOOSE i \in 1..Len(clustering) :
                                            Contains(clustering[i], c)) - 1]
        /\ queue' = FlatMap(Len(shuffled), LAMBDA i :
                        IF shuffled[i] = <<>> THEN <<>> ELSE Seeds(i - 1, shuffled[i]))
    /\ global' = 1..cfg.customers_count
    /\ truck_routes' = EmptyLists(cfg.trucks_count)
    /\ drone_routes' = EmptyLists(cfg.trucks_count)
    /\ IF DroneListsMissing
       THEN /\ pc' = "panic"
            /\ obs' = [step |-> "panic", message |-> "index out of bounds"]
       ELSE IF \E c \in 1..cfg.customers_count : ~truckable'[c] /\ ~dronableInit'[c]
       THEN /\ pc' = "panic"
            /\ obs' = [step |-> "panic", message |-> "cannot be served"]
       ELSE /\ pc' = "insert"
            /\ obs' = [step |-> "seed"]
    /\ UNCHANGED <<cfg, root, result, current, last_improved, elite_set, neighborhood_idx,
                   tabu_lists, iteration, penalty, tabu_size, reset_after, tabu_history, rt,
                   improved, sweep_idx>>


\* the customer min_idx of truck_next and drone_next: the nearest flagged
\* customer of the parent's cluster, else of global; 0 when there is none
NearestNext(bits, clusters_, global_, parent) ==
    LET Nearest(seq) ==
            LET flagged == {p \in 1..Len(seq) : bits[seq[p]]}
            IN  IF flagged = {} THEN 0
                ELSE seq[CHOOSE p \in flagged :
                            \A q \in flagged :
                                \/ Distance(parent, seq[p]) < Distance(parent, seq[q])
                                \/ Distance(parent, seq[p]) = Distance(parent, seq[q]) /\ p <= q]
        in_cluster == Nearest(At(clusters_, clusters_mapping[parent]))
        ascending[k \in 0..cfg.customers_count] ==
            IF k = 0 THEN <<>>
            ELSE IF k \in global_ THEN Append(ascending[k - 1], k) ELSE ascending[k - 1]
    IN  IF in_cluster # 0 THEN in_cluster ELSE Nearest(ascending[cfg.customers_count])

\* truck_next: the state it pushes, if any
TruckNext(clusters_, global_, truck_routes_, drone_routes_, parent, vehicle) ==
    LET min_idx == NearestNext(truckable, clusters_, global_, parent)
    IN  IF min_idx = 0 THEN <<>>
        ELSE <<[working_time |-> At(SolutionNew(truck_routes_, drone_routes_).truck_working_time, vehicle),
                vehicle |-> vehicle, parent |-> parent, index |-> min_idx, is_truck |-> TRUE]>>

\* drone_next: the state it pushes, if any
DroneNext(clusters_, global_, truck_routes_, drone_routes_, parent, vehicle) ==
    LET min_idx == NearestNext(dronableInit, clusters_, global_, parent)
    IN  IF min_idx = 0 THEN <<>>
        ELSE <<[working_time |-> At(SolutionNew(truck_routes_, drone_routes_).drone_working_time, vehicle),
                vehicle |-> vehicle, parent |-> parent, index |-> min_idx, is_truck |-> FALSE]>>

\* the states BinaryHeap::pop may return: _State orders by reversed
\* working_time alone, the order among equal working times is unspecified
PopChoices(queue_) ==
    {p \in 1..Len(queue_) :
        \A q \in 1..Len(queue_) : ~RLess(queue_[q].working_time, queue_[p].working_time)}

\* the insertion of packed.index into the routes of packed.vehicle
Inserted(routes, packed) ==
    LET kind == IF packed.is_truck THEN "truck" ELSE "drone"
        list == At(routes, packed.vehicle)
    IN  IF packed.parent = 0 THEN Set0(routes, packed.vehicle, Append(list, Single(packed.index)))
        ELSE Set0(routes, packed.vehicle,
                  Set0(list, Len(list) - 1, Push(list[Len(list)], packed.index)))

\* the removal that undoes Inserted
Uninserted(routes, packed) ==
    LET list == At(routes, packed.vehicle)
    IN  IF packed.parent = 0 THEN Set0(routes, packed.vehicle, Pop(list))
        ELSE Set0(routes, packed.vehicle, Set0(list, Len(list) - 1, RoutePop(list[Len(list)])))

\* one iteration of the insertion loop
InitializeStep ==
    /\ pc = "insert"
    /\ global # {}
    /\ IF queue = <<>>
       THEN /\ pc' = "panic"
            /\ obs' = [step |-> "panic", message |-> "trivial solution"]
            /\ UNCHANGED <<clusters, queue, global, truck_routes, drone_routes>>
       ELSE \E at \in PopChoices(queue) :
            LET packed == queue[at]
                popped == Remove0(queue, at - 1)
                cluster == clusters_mapping[packed.index]
                index == Position(At(clusters, cluster), packed.index)
                found == index < Len(At(clusters, cluster))
                trucks_in == IF packed.is_truck THEN Inserted(truck_routes, packed) ELSE truck_routes
                drones_in == IF packed.is_truck THEN drone_routes ELSE Inserted(drone_routes, packed)
                feasible == Feasible(trucks_in, drones_in)
                clusters_out == Set0(clusters, cluster, Remove0(At(clusters, cluster), index))
                global_out == global \ {packed.index}
                trucks_back == Uninserted(trucks_in, packed)
                drones_back == Uninserted(drones_in, packed)
                drone_parent(parent) == IF cfg.single_drone_route THEN 0 ELSE parent
            IN  /\ pc' = "insert"
                /\ obs' = [step |-> "insert", packed |-> packed, inserted |-> found /\ feasible]
                /\ IF found /\ feasible
                   THEN /\ clusters' = clusters_out
                        /\ global' = global_out
                        /\ truck_routes' = trucks_in
                        /\ drone_routes' = drones_in
                        /\ queue' = popped \o
                             (IF packed.is_truck
                              THEN TruckNext(clusters_out, global_out, trucks_in, drones_in,
                                             packed.index, packed.vehicle)
                              ELSE DroneNext(clusters_out, global_out, trucks_in, drones_in,
                                             drone_parent(packed.index), packed.vehicle))
                   ELSE IF found
                   THEN /\ UNCHANGED <<clusters, global, truck_routes, drone_routes>>
                        /\ queue' = popped \o
                             (IF packed.is_truck
                              THEN IF cfg.single_truck_route THEN <<>>
                                   ELSE TruckNext(clusters, global, trucks_back, drones_in,
                                                  0, packed.vehicle)
                              ELSE DroneNext(clusters, global, trucks_in, drones_back,
                                             0, packed.vehicle))
                   ELSE /\ UNCHANGED <<clusters, global, truck_routes, drone_routes>>
                        /\ queue' = popped \o
                             (IF packed.is_truck
                              THEN TruckNext(clusters, global, truck_routes, drone_routes,
                                             packed.parent, packed.vehicle)
                              ELSE DroneNext(clusters, global, truck_routes, drone_routes,
                                             drone_parent(packed.parent), packed.vehicle))
    /\ UNCHANGED <<cfg, clusters_mapping, truckable, dronableInit, root, result, current,
                   last_improved, elite_set, neighborhood_idx, tabu_lists, iteration, penalty,
                   tabu_size, reset_after, tabu_history, rt,
                   improved, sweep_idx>>

\* the drone routes handed to the drones_count drones: longest route first,
\* each to the drone with the least accumulated working time
Redistribute(drone_routes_) ==
    LET all_routes == Concat(drone_routes_)
        Time(route) == RouteWorkingTime("drone", route)
        \* sort_by(working_time, reversed), stable
        sorted[k \in 0..Len(all_routes)] ==
            IF k = 0 THEN <<>>
            ELSE LET before == {p \in 1..(k - 1) :
                                 Time(sorted[k - 1][p]) >= Time(all_routes[k])}
                 IN  Insert0(sorted[k - 1], Cardinality(before), all_routes[k])
        routes == sorted[Len(all_routes)]
        placed[k \in 0..Len(routes)] ==
            IF k = 0 THEN [routes |-> EmptyLists(cfg.drones_count),
                           working_time |-> [d \in 1..cfg.drones_count |-> RZero]]
            ELSE LET prev == placed[k - 1]
                     min_idx == CHOOSE d \in 1..cfg.drones_count :
                                   \A e \in 1..cfg.drones_count :
                                       \/ RLess(prev.working_time[d], prev.working_time[e])
                                       \/ prev.working_time[d] = prev.working_time[e] /\ d <= e
                 IN  [routes |-> [prev.routes EXCEPT ![min_idx] = Append(@, routes[k])],
                      working_time |-> [prev.working_time EXCEPT
                                            ![min_idx] = RAdd(@, RInt(Time(routes[k])))]]
    IN  IF cfg.drones_count > 0 THEN placed[Len(routes)].routes ELSE <<>>


\* the end of initialize: the drone routes are handed to the drones and the
\* solution is built
InitializeFinish ==
    /\ pc = "insert"
    /\ global = {}
    /\ root' = SolutionNew(truck_routes, Redistribute(drone_routes))
    /\ pc' = "tabu_search"
    /\ obs' = [step |-> "initialize"]
    /\ UNCHANGED <<cfg, clusters, clusters_mapping, truckable, dronableInit, queue, global,
                   truck_routes, drone_routes, result, current, last_improved, elite_set,
                   neighborhood_idx, tabu_lists, iteration, penalty, tabu_size, reset_after,
                   tabu_history, rt,
                   improved, sweep_idx>>

----------------------------------------------------------------------------
(* Solution::post_optimization and Solution::tabu_search (solutions.rs).    *)

\* i64::MAX as usize, the reset_after of a run with fix_iteration; every
\* iteration number of the model is below it
NeverReset == 2147483647

\* the limit of reset_after
ResetAfterLimit == 500

\* the number of vehicles of root that have a route
TotalVehicle(root_) ==
    Cardinality({v \in 1..Len(root_.truck_routes) : root_.truck_routes[v] # <<>>})
    + Cardinality({v \in 1..Len(root_.drone_routes) : root_.drone_routes[v] # <<>>})

\* (factor * base_hyperparameter) as usize, factor a ratio <<n, d>>
Hyperparameter(factor, root_) ==
    (factor[1] * cfg.customers_count) \div (factor[2] * TotalVehicle(root_))

TabuSize(root_) == Hyperparameter(cfg.tabu_size_factor, root_)

\* a reset_after that ignores fix_iteration
ResetAfterAlways(root_) ==
    LET wanted == Hyperparameter(cfg.reset_after_factor, root_)
    IN  IF wanted < ResetAfterLimit THEN wanted ELSE ResetAfterLimit

ResetAfter(root_) ==
    IF cfg.fix_iteration # None THEN NeverReset
    ELSE LET wanted == Hyperparameter(cfg.reset_after_factor, root_)
         IN  IF wanted < ResetAfterLimit THEN wanted ELSE ResetAfterLimit

\* a test that accepts an infeasible neighbour
ImprovesInCostAlone(neighbor, result_) == RLess(Cost(neighbor), Cost(result_))

\* the test of _record_new_solution
Improves(neighbor, result_) == RLess(Cost(neighbor), Cost(result_)) /\ neighbor.feasible

\* a record that evicts the last member at the least distance
RecordNewSolutionLast(neighbor, best, iteration_) ==
    LET Nearest(distance) ==
            CHOOSE p \in 1..Len(distance) :
                \A q \in 1..Len(distance) :
                    distance[p] < distance[q] \/ (distance[p] = distance[q] /\ p >= q)
        Evicted(elite) ==
            IF Len(elite) = cfg.max_elite_size
            THEN Remove0(elite, Nearest([p \in 1..Len(elite) |->
                                            HammingDistance(elite[p], neighbor)]) - 1)
            ELSE elite
    IN  IF Improves(neighbor, best.result)
        THEN [result |-> neighbor,
              last_improved |-> iteration_,
              elite_set |-> IF cfg.max_elite_size > 0
                            THEN Append(Evicted(best.elite_set), neighbor)
                            ELSE best.elite_set]
        ELSE best

\* _record_new_solution on the triple [result, last_improved, elite_set]
RecordNewSolution(neighbor, best, iteration_) ==
    LET \* min_by_key: the first member at the least distance
        Nearest(distance) ==
            CHOOSE p \in 1..Len(distance) :
                \A q \in 1..Len(distance) :
                    distance[p] < distance[q] \/ (distance[p] = distance[q] /\ p <= q)
        Evicted(elite) ==
            IF Len(elite) = cfg.max_elite_size
            THEN Remove0(elite, Nearest([p \in 1..Len(elite) |->
                                            HammingDistance(elite[p], neighbor)]) - 1)
            ELSE elite
    IN  IF Improves(neighbor, best.result)
        THEN [result |-> neighbor,
              last_improved |-> iteration_,
              elite_set |-> IF cfg.max_elite_size > 0
                            THEN Append(Evicted(best.elite_set), neighbor)
                            ELSE best.elite_set]
        ELSE best

\* an update that forgets the upper end of the clamp
UpdateViolationUnbounded(value, violation) ==
    LET scaled == IF RPos(violation) THEN RMul(value, <<3, 2>>) ELSE RMul(value, <<2, 3>>)
    IN  RMax(scaled, RInt(1))

\* _update_violation
UpdateViolation(value, violation) ==
    LET scaled == IF RPos(violation) THEN RMul(value, <<3, 2>>) ELSE RMul(value, <<2, 3>>)
    IN  RMin(RMax(scaled, RInt(1)), RInt(1000))

\* _update_violation_solution
UpdateViolationSolution(coeff, s) ==
    <<UpdateViolation(coeff[1], s.energy_violation),
      UpdateViolation(coeff[2], s.capacity_violation),
      UpdateViolation(coeff[3], s.waiting_time_violation),
      UpdateViolation(coeff[4], s.fixed_time_violation)>>

\* a test that forgets the remainder
RestartWithoutPeriod(iteration_, last_improved_, reset_after_) ==
    iteration_ # last_improved_

\* the test of the restart branch
RestartRequired(iteration_, last_improved_, reset_after_) ==
    iteration_ # last_improved_ /\ (iteration_ - last_improved_) % reset_after_ = 0

\* the ejection chain of a restart, rounds left to run, on the record
\* [current, result, last_improved, elite_set, tabu_list]; searches is the
\* history of the calls of search
RECURSIVE EjectionChain(_, _, _)
EjectionChain(st, iteration_, rounds) ==
    IF rounds = 0 THEN st
    ELSE LET Call(found) == [from |-> st.current, tabu_list |-> st.tabu_list,
                             best |-> st.result, found |-> found]
             Recorded(found, best) ==
                 [current |-> found.solution, result |-> best.result,
                  last_improved |-> best.last_improved, elite_set |-> best.elite_set,
                  tabu_list |-> found.tabu_list,
                  searches |-> Append(st.searches, Call(found))]
             Step(found) ==
                 IF found.some
                 THEN EjectionChain(
                          Recorded(found,
                                   RecordNewSolution(found.solution,
                                       [result |-> st.result,
                                        last_improved |-> st.last_improved,
                                        elite_set |-> st.elite_set], iteration_)),
                          iteration_, rounds - 1)
                 ELSE EjectionChain([st EXCEPT !.searches = Append(@, Call(found))],
                                    iteration_, rounds - 1)
         IN  Step(Search(st.current, "EjectionChain", st.tabu_list,
                         cfg.ejection_chain_iterations, Cost(st.result)))

\* a strategy step in which Cyclic returns to the first family after an
\* improvement, as Vns does
NextNeighborhoodVariable(iteration_, last_improved_, drawn) ==
    IF cfg.strategy = "Random" THEN drawn
    ELSE IF iteration_ = last_improved_ THEN 0
    ELSE (neighborhood_idx + 1) % Len(Neighborhoods)

\* a strategy step in which Vns moves to the next family after an
\* improvement as well
NextNeighborhoodAdvances(iteration_, last_improved_, drawn) ==
    IF cfg.strategy = "Random" THEN drawn
    ELSE (neighborhood_idx + 1) % Len(Neighborhoods)

\* the strategy step: the next neighborhood_idx, given the drawn index
NextNeighborhood(iteration_, last_improved_, drawn) ==
    CASE cfg.strategy = "Random" -> drawn
      [] cfg.strategy = "Cyclic" -> (neighborhood_idx + 1) % Len(Neighborhoods)
      [] cfg.strategy = "Vns" ->
            IF iteration_ = last_improved_ THEN 0
            ELSE (neighborhood_idx + 1) % Len(Neighborhoods)


\* the bound of the model on the iterations of a run without fix_iteration
MaxIter == 9

NoLists == [k \in 1..Len(Neighborhoods) |-> <<>>]

\* an elite set that starts empty
InitialEliteSetEmpty(root_) == <<>>

\* the elite set before the loop: vec![] and the push of result
InitialEliteSet(root_) == <<root_>>

\* tabu_search up to its loop: the hyperparameters and the initial state
TabuSearchStart ==
    /\ pc = "tabu_search"
    /\ tabu_size' = TabuSize(root)
    /\ reset_after' = ResetAfter(root)
    /\ result' = root
    /\ last_improved' = 0
    /\ iteration' = 0
    /\ IF cfg.dry_run
       THEN /\ pc' = "done"
            /\ UNCHANGED <<current, elite_set, neighborhood_idx, tabu_lists>>
       ELSE /\ pc' = IF cfg.fix_iteration = <<0>> THEN "post_optimization" ELSE "loop"
            /\ current' = root
            /\ elite_set' = InitialEliteSet(root)
            /\ neighborhood_idx' = 0
            /\ tabu_lists' = NoLists
    /\ obs' = [step |-> "tabu_search"]
    /\ UNCHANGED <<cfg, clusters, clusters_mapping, truckable, dronableInit, queue, global,
                   truck_routes, drone_routes, root, penalty, tabu_history, rt,
                   improved, sweep_idx>>

\* the working times of the neighbours that are feasible and cost less than
\* aspiration_cost
Aspirants(cands, aspiration_cost) ==
    {cands[c].solution.working_time :
        c \in {d \in 1..Len(cands) : /\ cands[d].solution.feasible
                                     /\ RLess(Cost(cands[d].solution), aspiration_cost)}}

\* one iteration of the loop of tabu_search
Iterate ==
    /\ pc = "loop"
    /\ iteration < MaxIter
    /\ iteration' = iteration + 1
    /\ \E cands \in {Candidates(current, At(Neighborhoods, neighborhood_idx))} :
       \E found \in {SearchOn(current, cands, At(tabu_lists, neighborhood_idx), tabu_size,
                              Cost(result))} :
       \E moved \in {IF found.some
                     THEN RecordNewSolution(found.solution,
                              [result |-> result, last_improved |-> last_improved,
                               elite_set |-> elite_set], iteration + 1)
                     ELSE [result |-> result, last_improved |-> last_improved,
                           elite_set |-> elite_set]} :
       \E aspirants \in {Aspirants(cands[1] \o cands[2], Cost(result))} :
       LET i == iteration + 1
           lists == Set0(tabu_lists, neighborhood_idx, found.tabu_list)
           history == IF found.some
                      THEN Set0(tabu_history, neighborhood_idx,
                                Append(At(tabu_history, neighborhood_idx), found.tabu))
                      ELSE tabu_history
           Seen(step, popped, popped_from, remaining, chain) ==
               [step |-> step, neighborhood_idx |-> neighborhood_idx,
                old_current |-> current, tabu_list |-> At(tabu_lists, neighborhood_idx),
                found |-> found, aspirants |-> aspirants, moved |-> moved,
                popped |-> popped, popped_from |-> popped_from, remaining |-> remaining,
                chain |-> chain, old_penalty |-> penalty,
                \* logger.log(&current, ..): no row is written before the break
                log |-> [written |-> step # "break", solution |-> chain.current,
                         neighborhood |-> IF step = "restart" THEN "EjectionChain"
                                          ELSE At(Neighborhoods, neighborhood_idx),
                         tabu_list |-> IF step = "restart" THEN chain.tabu_list
                                       ELSE found.tabu_list]]
           no_chain == [current |-> found.solution, result |-> moved.result,
                        last_improved |-> moved.last_improved,
                        elite_set |-> moved.elite_set, tabu_list |-> <<>>,
                        searches |-> <<>>]
       IN  IF i # moved.last_improved /\ reset_after = 0
           THEN \* attempt to calculate the remainder with a divisor of zero
                /\ pc' = "panic"
                /\ obs' = [step |-> "panic", message |-> "remainder by zero"]
                /\ UNCHANGED <<result, current, last_improved, elite_set, neighborhood_idx,
                               tabu_lists, penalty, tabu_history>>
           ELSE IF RestartRequired(i, moved.last_improved, reset_after)
                   /\ moved.elite_set = <<>>
           THEN /\ pc' = "post_optimization"
                /\ result' = moved.result
                /\ last_improved' = moved.last_improved
                /\ elite_set' = moved.elite_set
                /\ current' = found.solution
                /\ tabu_lists' = lists
                /\ tabu_history' = history
                /\ obs' = Seen("break", None, <<>>, <<>>, no_chain)
                /\ UNCHANGED <<neighborhood_idx, penalty>>
           ELSE \E restart \in {RestartRequired(i, moved.last_improved, reset_after)} :
                \E pick \in IF restart THEN 0..(Len(moved.elite_set) - 1) ELSE {0} :
                \E drawn \in IF cfg.strategy = "Random"
                             THEN 0..(Len(Neighborhoods) - 1) ELSE {0} :
                \E chain \in {IF restart
                              THEN EjectionChain(
                                       [current |-> At(moved.elite_set, pick),
                                        result |-> moved.result,
                                        last_improved |-> moved.last_improved,
                                        elite_set |-> SwapRemove0(moved.elite_set, pick),
                                        tabu_list |-> <<>>, searches |-> <<>>],
                                       i, cfg.ejection_chain_iterations)
                              ELSE no_chain} :
                \E next_idx \in {NextNeighborhood(i, chain.last_improved, drawn)} :
                    /\ pc' = IF cfg.fix_iteration = <<i>>
                             THEN "post_optimization" ELSE "loop"
                    /\ result' = chain.result
                    /\ last_improved' = chain.last_improved
                    /\ elite_set' = chain.elite_set
                    /\ tabu_lists' = IF restart THEN NoLists ELSE lists
                    /\ tabu_history' = IF restart THEN NoLists ELSE history
                    /\ penalty' = UpdateViolationSolution(penalty, chain.current)
                    /\ neighborhood_idx' = next_idx
                    /\ current' = IF /\ cfg.strategy = "Vns"
                                     /\ i # chain.last_improved
                                     /\ next_idx # 0
                                  THEN current ELSE chain.current
                    /\ obs' = IF restart
                              THEN Seen("restart", At(moved.elite_set, pick),
                                        moved.elite_set,
                                        SwapRemove0(moved.elite_set, pick), chain)
                              ELSE Seen("move", None, <<>>, <<>>, no_chain)
    /\ UNCHANGED <<cfg, clusters, clusters_mapping, truckable, dronableInit, queue, global,
                   truck_routes, drone_routes, root, tabu_size, reset_after, rt,
                   improved, sweep_idx>>

\* Solution::post_optimization, one neighbourhood of a sweep: the search from
\* result with an empty tabu list, kept when it is cheaper and feasible
PostOptimizeStep ==
    /\ pc = "post_optimization"
    /\ sweep_idx < Len(Neighborhoods)
    /\ \E cands \in {Candidates(result, At(Neighborhoods, sweep_idx))} :
       \E best \in {SearchOn(result, cands, <<>>, 0, Cost(result))} :
       \E kept \in {/\ best.some
                     /\ RLess(Cost(best.solution), Cost(result))
                     /\ best.solution.feasible} :
           /\ result' = IF kept THEN best.solution ELSE result
           /\ improved' = (kept \/ improved)
           /\ obs' = [step |-> "post_optimization", neighborhood_idx |-> sweep_idx,
                      best |-> best, kept |-> kept]
    /\ sweep_idx' = sweep_idx + 1
    /\ UNCHANGED <<cfg, pc, clusters, clusters_mapping, truckable, dronableInit, queue,
                   global, truck_routes, drone_routes, root, current, last_improved,
                   elite_set, neighborhood_idx, tabu_lists, iteration, penalty, tabu_size,
                   reset_after, tabu_history, rt>>

\* Solution::post_optimization between two sweeps: another sweep while the last
\* one improved, the end of tabu_search otherwise
PostOptimizeSweep ==
    /\ pc = "post_optimization"
    /\ sweep_idx = Len(Neighborhoods)
    /\ IF improved
       THEN /\ improved' = FALSE
            /\ sweep_idx' = 0
            /\ UNCHANGED pc
       ELSE /\ pc' = "done"
            /\ UNCHANGED <<improved, sweep_idx>>
    /\ UNCHANGED <<cfg, clusters, clusters_mapping, truckable, dronableInit, queue,
                   global, truck_routes, drone_routes, root, result, current, last_improved,
                   elite_set, neighborhood_idx, tabu_lists, iteration, penalty, tabu_size,
                   reset_after, tabu_history, obs, rt>>


----------------------------------------------------------------------------
(* The instances and settings of the runs.                                  *)

\* one truck, four customers, customer 4 fills a truck route on its own
OneTruck ==
    [customers_count |-> 4, trucks_count |-> 1, drones_count |-> 0,
     x |-> <<0, 2, 1, 5, 5>>, y |-> <<0, 2, 1, 1, 3>>,
     demands |-> <<0, 1, 1, 1, 32>>,
     dronable |-> <<TRUE, FALSE, FALSE, FALSE, FALSE>>,
     truck_capacity |-> 32, drone_capacity |-> 1,
     waiting_time_limit |-> 64, drone_fixed_time |-> 1,
     single_truck_route |-> FALSE, single_drone_route |-> FALSE,
     strategy |-> "Cyclic", fix_iteration |-> None,
     tabu_size_factor |-> <<1, 2>>, reset_after_factor |-> <<1, 2>>,
     max_elite_size |-> 2, ejection_chain_iterations |-> 2, dry_run |-> FALSE]

\* the same under the variable strategy
OneTruckVns == [OneTruck EXCEPT !.strategy = "Vns"]

\* the same under the variable strategy for seven iterations, without restart
OneTruckVnsFixed == [OneTruck EXCEPT !.strategy = "Vns", !.fix_iteration = <<7>>]

\* the same under the random strategy, for a fixed number of iterations and
\* with a tabu list of one entry
OneTruckRandom ==
    [OneTruck EXCEPT !.strategy = "Random", !.fix_iteration = <<2>>,
                     !.tabu_size_factor = <<1, 4>>]

\* the same with a loop of no iteration
OneTruckFixed == [OneTruck EXCEPT !.fix_iteration = <<0>>]

\* one truck and one drone, two customers on a line; the customer next to the
\* depot is not dronable
TruckAndDrone ==
    [customers_count |-> 2, trucks_count |-> 1, drones_count |-> 1,
     x |-> <<0, 1, 2>>, y |-> <<0, 0, 0>>,
     demands |-> <<0, 1, 1>>,
     dronable |-> <<TRUE, FALSE, TRUE>>,
     truck_capacity |-> 4, drone_capacity |-> 1,
     waiting_time_limit |-> 64, drone_fixed_time |-> 8,
     single_truck_route |-> FALSE, single_drone_route |-> FALSE,
     strategy |-> "Cyclic", fix_iteration |-> None,
     tabu_size_factor |-> <<1, 2>>, reset_after_factor |-> <<1, 1>>,
     max_elite_size |-> 2, ejection_chain_iterations |-> 2, dry_run |-> FALSE]

\* the same without an elite set
OneTruckNoElite == [OneTruck EXCEPT !.max_elite_size = 0]

\* one truck, one drone and one customer that the drone may not serve;
\* reset_after is 1
OneCustomer ==
    [customers_count |-> 1, trucks_count |-> 1, drones_count |-> 1,
     x |-> <<0, 1>>, y |-> <<0, 0>>,
     demands |-> <<0, 0>>,
     dronable |-> <<TRUE, FALSE>>,
     truck_capacity |-> 4, drone_capacity |-> 1,
     waiting_time_limit |-> 64, drone_fixed_time |-> 8,
     single_truck_route |-> FALSE, single_drone_route |-> FALSE,
     strategy |-> "Cyclic", fix_iteration |-> None,
     tabu_size_factor |-> <<1, 2>>, reset_after_factor |-> <<1, 1>>,
     max_elite_size |-> 2, ejection_chain_iterations |-> 2, dry_run |-> FALSE]

\* the same with a reset_after of 2
OneCustomerSlow == [OneCustomer EXCEPT !.reset_after_factor = <<2, 1>>]

\* the same with a reset_after of 4: a run of eight iterations
OneCustomerLong == [OneCustomer EXCEPT !.reset_after_factor = <<4, 1>>]

\* the same with a reset_after of 0
OneCustomerZero == [OneCustomer EXCEPT !.reset_after_factor = <<1, 2>>]

\* one drone and no truck, two customers that the drone can serve one by one
DroneOnly ==
    [TruckAndDrone EXCEPT !.trucks_count = 0, !.dronable = <<TRUE, TRUE, TRUE>>]

\* customer 1 is too heavy for the truck and not dronable
Unservable == [TruckAndDrone EXCEPT !.demands = <<0, 5, 1>>]

\* one truck with a single route and two customers that do not fit together
OneRouteTooSmall ==
    [TruckAndDrone EXCEPT !.drones_count = 0, !.demands = <<0, 3, 3>>,
                          !.dronable = <<TRUE, FALSE, FALSE>>,
                          !.single_truck_route = TRUE]

Configs ==
    {DroneOnly, Unservable, OneRouteTooSmall, OneTruck, OneTruckVns, OneTruckRandom, OneTruckFixed, TruckAndDrone,
     OneTruckNoElite, OneTruckVnsFixed, OneCustomer, OneCustomerSlow, OneCustomerLong, OneCustomerZero}

Init ==
    /\ cfg \in Configs
    /\ pc = "initialize"
    /\ clusters = <<>>
    /\ clusters_mapping = <<>>
    /\ truckable = <<>>
    /\ dronableInit = <<>>
    /\ queue = <<>>
    /\ global = {}
    /\ truck_routes = <<>>
    /\ drone_routes = <<>>
    /\ root = None
    /\ result = None
    /\ current = None
    /\ last_improved = 0
    /\ elite_set = <<>>
    /\ neighborhood_idx = 0
    /\ tabu_lists = NoLists
    /\ iteration = 0
    /\ penalty = <<RInt(1), RInt(1), RInt(1), RInt(1)>>
    /\ tabu_size = 0
    /\ reset_after = 0
    /\ tabu_history = NoLists
    /\ improved = TRUE
    /\ sweep_idx = Len(Neighborhoods)
    /\ obs = [step |-> "start"]
    /\ rt = None

Next ==
    \/ InitializeStart
    \/ InitializeStep
    \/ InitializeFinish
    \/ TabuSearchStart
    \/ Iterate
    \/ PostOptimizeStep
    \/ PostOptimizeSweep

Spec == Init /\ [][Next]_vars

\* the states in which the program has a next step: the guards of the
\* actions of Next, each of which has a successor whenever its guard holds
Running ==
    \/ pc \in {"initialize", "insert", "tabu_search", "post_optimization"}
    \/ pc = "loop" /\ iteration < MaxIter

\* the run under the scheduling of the program: a sequential program takes
\* its next step whenever it has one.  This is WF_vars(Next) with the
\* enabling condition of Next written out as Running
FairSpec == Spec /\ ([]<>(~Running) \/ []<><<Next>>_vars)


----------------------------------------------------------------------------
(* The route generators on their own: Route::intra_route,                   *)
(* Route::inter_route and Route::inter_route_extract on every pair of       *)
(* valid routes over a few customers, for every pair of kinds and every     *)
(* neighbourhood.                                                           *)

\* the number of customers of the route pairs
RouteCustomers == 4

\* the CONFIG of the route pairs: customers on a line, customer 1 not dronable
RouteConfig ==
    [OneTruck EXCEPT !.customers_count = RouteCustomers,
                     !.drones_count = 1,
                     !.x = [c \in 1..(RouteCustomers + 1) |-> c - 1],
                     !.y = [c \in 1..(RouteCustomers + 1) |-> 0],
                     !.demands = [c \in 1..(RouteCustomers + 1) |-> IF c = 1 THEN 0 ELSE 1],
                     !.dronable = [c \in 1..(RouteCustomers + 1) |-> c # 2]]

\* the customer lists without repetition
Arrangements(customers) ==
    UNION {{f \in [1..n -> customers] : \A a, b \in 1..n : a # b => f[a] # f[b]} :
              n \in 1..Cardinality(customers)}

\* the customers of a route between its two depots
Interior(route) == Slice0(route, 1, Len(route) - 1)

\* a route the program can hold: the assertions of _construct, and a drone
\* route serves dronable customers only
HeldRoute(config, kind, route) ==
    /\ Len(route) >= 3
    /\ route[1] = 0
    /\ route[Len(route)] = 0
    /\ \A p \in 2..(Len(route) - 1) : route[p] # 0
    /\ kind = "drone" => \A p \in 2..(Len(route) - 1) : At(config.dronable, route[p])

RouteInputs ==
    {[op |-> "input", ki |-> ki, ci |-> <<0>> \o a \o <<0>>, kj |-> kj,
      cj |-> <<0>> \o b \o <<0>>, neighborhood |-> neighborhood, out |-> <<>>] :
        <<a, b>> \in {ab \in Arrangements(1..RouteCustomers) \X Arrangements(1..RouteCustomers) :
                         Range(ab[1]) \cap Range(ab[2]) = {}},
        <<ki, kj>> \in Range(Kinds) \X Range(Kinds),
        neighborhood \in Range(Neighborhoods)}

InitRoute ==
    /\ cfg = RouteConfig
    /\ pc = "route"
    /\ clusters = <<>>
    /\ clusters_mapping = <<>>
    /\ truckable = <<>>
    /\ dronableInit = <<>>
    /\ queue = <<>>
    /\ global = {}
    /\ truck_routes = <<>>
    /\ drone_routes = <<>>
    /\ root = None
    /\ result = None
    /\ current = None
    /\ last_improved = 0
    /\ elite_set = <<>>
    /\ neighborhood_idx = 0
    /\ tabu_lists = NoLists
    /\ iteration = 0
    /\ penalty = <<RInt(1), RInt(1), RInt(1), RInt(1)>>
    /\ tabu_size = 0
    /\ reset_after = 0
    /\ tabu_history = NoLists
    /\ improved = TRUE
    /\ sweep_idx = Len(Neighborhoods)
    /\ obs = [step |-> "start"]
    /\ rt \in {input \in RouteInputs : /\ HeldRoute(RouteConfig, input.ki, input.ci)
                                       /\ HeldRoute(RouteConfig, input.kj, input.cj)}

\* self.intra_route(neighborhood)
RouteIntra ==
    /\ pc = "route"
    /\ rt.op = "input"
    /\ rt' = [rt EXCEPT !.op = "intra_route", !.out = IntraRoute(rt.ci, rt.neighborhood)]
    /\ UNCHANGED <<cfg, pc, clusters, clusters_mapping, truckable, dronableInit, queue,
                   global, truck_routes, drone_routes, root, result, current, last_improved,
                   elite_set, neighborhood_idx, tabu_lists, iteration, penalty, tabu_size,
                   reset_after, tabu_history, improved, sweep_idx, obs>>

\* self.inter_route(other, neighborhood)
RouteInter ==
    /\ pc = "route"
    /\ rt.op = "input"
    /\ rt' = [rt EXCEPT !.op = "inter_route",
                        !.out = InterRoute(rt.ki, rt.ci, rt.kj, rt.cj, rt.neighborhood)]
    /\ UNCHANGED <<cfg, pc, clusters, clusters_mapping, truckable, dronableInit, queue,
                   global, truck_routes, drone_routes, root, result, current, last_improved,
                   elite_set, neighborhood_idx, tabu_lists, iteration, penalty, tabu_size,
                   reset_after, tabu_history, improved, sweep_idx, obs>>

\* self.inter_route_extract::<T>(neighborhood), T of kind kj
RouteExtract ==
    /\ pc = "route"
    /\ rt.op = "input"
    /\ rt' = [rt EXCEPT !.op = "inter_route_extract",
                        !.out = InterRouteExtract(rt.ci, rt.kj, rt.neighborhood)]
    /\ UNCHANGED <<cfg, pc, clusters, clusters_mapping, truckable, dronableInit, queue,
                   global, truck_routes, drone_routes, root, result, current, last_improved,
                   elite_set, neighborhood_idx, tabu_lists, iteration, penalty, tabu_size,
                   reset_after, tabu_history, improved, sweep_idx, obs>>

NextRoute ==
    \/ RouteIntra
    \/ RouteInter
    \/ RouteExtract

SpecRoute == InitRoute /\ [][NextRoute]_vars

\* intra_route on every route over the customers, the route of all of them
\* included; other is the route itself and is not read
IntraInputs ==
    {[op |-> "input", ki |-> ki, ci |-> <<0>> \o a \o <<0>>, kj |-> ki,
      cj |-> <<0>> \o a \o <<0>>, neighborhood |-> neighborhood, out |-> <<>>] :
        a \in Arrangements(1..RouteCustomers), ki \in Range(Kinds),
        neighborhood \in Range(Neighborhoods)}

InitIntra ==
    /\ cfg = RouteConfig
    /\ pc = "route"
    /\ clusters = <<>>
    /\ clusters_mapping = <<>>
    /\ truckable = <<>>
    /\ dronableInit = <<>>
    /\ queue = <<>>
    /\ global = {}
    /\ truck_routes = <<>>
    /\ drone_routes = <<>>
    /\ root = None
    /\ result = None
    /\ current = None
    /\ last_improved = 0
    /\ elite_set = <<>>
    /\ neighborhood_idx = 0
    /\ tabu_lists = NoLists
    /\ iteration = 0
    /\ penalty = <<RInt(1), RInt(1), RInt(1), RInt(1)>>
    /\ tabu_size = 0
    /\ reset_after = 0
    /\ tabu_history = NoLists
    /\ improved = TRUE
    /\ sweep_idx = Len(Neighborhoods)
    /\ obs = [step |-> "start"]
    /\ rt \in {input \in IntraInputs : HeldRoute(RouteConfig, input.ki, input.ci)}

NextIntra == RouteIntra

SpecIntra == InitIntra /\ [][NextIntra]_vars


----------------------------------------------------------------------------
(* The penalty coefficients on their own: _update_violation_solution on     *)
(* every sequence of violation patterns, next to the runs of Spec.          *)

\* the violations of the solutions handed to _update_violation_solution:
\* none positive, all positive, the capacity violation alone
ViolationPatterns ==
    {[energy_violation |-> v[1], capacity_violation |-> v[2],
      waiting_time_violation |-> v[3], fixed_time_violation |-> v[4]] :
        v \in {<<RZero, RZero, RZero, RZero>>,
                <<<<1, 32>>, <<1, 32>>, <<1, 32>>, <<1, 32>>>>,
                <<RZero, <<1, 32>>, RZero, RZero>>}}

InitPenalty ==
    /\ cfg = OneTruck
    /\ pc = "penalty"
    /\ clusters = <<>>
    /\ clusters_mapping = <<>>
    /\ truckable = <<>>
    /\ dronableInit = <<>>
    /\ queue = <<>>
    /\ global = {}
    /\ truck_routes = <<>>
    /\ drone_routes = <<>>
    /\ root = None
    /\ result = None
    /\ current = None
    /\ last_improved = 0
    /\ elite_set = <<>>
    /\ neighborhood_idx = 0
    /\ tabu_lists = NoLists
    /\ iteration = 0
    /\ penalty = <<RInt(1), RInt(1), RInt(1), RInt(1)>>
    /\ tabu_size = 0
    /\ reset_after = 0
    /\ tabu_history = NoLists
    /\ improved = TRUE
    /\ sweep_idx = Len(Neighborhoods)
    /\ obs = [step |-> "start"]
    /\ rt = None

\* _update_violation_solution(&current) at the end of an iteration
UpdatePenalty ==
    /\ pc = "penalty"
    /\ \E s \in ViolationPatterns :
        /\ penalty' = UpdateViolationSolution(penalty, s)
        /\ obs' = [step |-> "penalty", current |-> s]
    /\ UNCHANGED <<cfg, pc, clusters, clusters_mapping, truckable, dronableInit, queue,
                   global, truck_routes, drone_routes, root, result, current, last_improved,
                   elite_set, neighborhood_idx, tabu_lists, iteration, tabu_size,
                   reset_after, tabu_history, improved, sweep_idx, rt>>

NextPenalty ==
    \/ Next
    \/ UpdatePenalty

SpecPenalty == (Init \/ InitPenalty) /\ [][NextPenalty]_vars


----------------------------------------------------------------------------
(* The elite set on its own: _record_new_solution on every descending chain *)
(* of feasible solutions of one instance, and the swap_remove of a restart  *)
(* on every index.  obs carries the insertion stamp of every member.        *)

\* one truck, three customers, an elite set of three members
EliteConfig ==
    [OneTruck EXCEPT !.customers_count = 3,
                     !.x = <<0, 2, 1, 5>>, !.y = <<0, 2, 1, 1>>,
                     !.demands = <<0, 1, 1, 1>>,
                     !.dronable = <<TRUE, FALSE, FALSE, FALSE>>,
                     !.max_elite_size = 3]

\* the ways to cut a customer list into the routes of one truck
RECURSIVE Cuts(_)
Cuts(list) ==
    IF list = <<>> THEN {<<>>}
    ELSE UNION {{<<<<0>> \o SubSeq(list, 1, k) \o <<0>>>> \o rest :
                    rest \in Cuts(SubSeq(list, k + 1, Len(list)))} : k \in 1..Len(list)}

\* the feasible solutions of the instance: what search can hand to
\* _record_new_solution
EliteSolutions ==
    {s \in {SolutionNew(<<routes>>, <<>>) :
               routes \in UNION {Cuts(a) : a \in {f \in Arrangements(1..cfg.customers_count) :
                                                     Len(f) = cfg.customers_count}}} :
        s.feasible}

\* the root of the chains: every customer on a truck route of its own
EliteRoot ==
    SolutionNew(<<[c \in 1..EliteConfig.customers_count |-> Single(c)]>>, <<>>)

InitElite ==
    /\ cfg = EliteConfig
    /\ pc = "elite"
    /\ clusters = <<>>
    /\ clusters_mapping = <<>>
    /\ truckable = <<>>
    /\ dronableInit = <<>>
    /\ queue = <<>>
    /\ global = {}
    /\ truck_routes = <<>>
    /\ drone_routes = <<>>
    /\ penalty = <<RInt(1), RInt(1), RInt(1), RInt(1)>>
    /\ root = EliteRoot
    /\ result = root
    /\ current = root
    /\ last_improved = 0
    /\ elite_set = InitialEliteSet(root)
    /\ neighborhood_idx = 0
    /\ tabu_lists = NoLists
    /\ iteration = 0
    /\ tabu_size = 0
    /\ reset_after = 0
    /\ tabu_history = NoLists
    /\ improved = TRUE
    /\ sweep_idx = Len(Neighborhoods)
    /\ obs = [step |-> "start", stamps |-> <<0>>, clock |-> 0]
    /\ rt = None

\* _record_new_solution(neighbor, ..) on a neighbour that improves result
EliteRecord ==
    /\ pc = "elite"
    /\ \E neighbor \in EliteSolutions :
        /\ Improves(neighbor, result)
        /\ LET moved == RecordNewSolution(neighbor,
                            [result |-> result, last_improved |-> last_improved,
                             elite_set |-> elite_set], iteration + 1)
               gone == {p \in 1..Len(elite_set) :
                           moved.elite_set = Append(Remove0(elite_set, p - 1), neighbor)}
           IN  /\ result' = moved.result
               /\ last_improved' = moved.last_improved
               /\ elite_set' = moved.elite_set
               /\ current' = neighbor
               /\ obs' = [step |-> "record", neighbor |-> neighbor,
                          before |-> elite_set, before_stamps |-> obs.stamps,
                          stamps |-> IF moved.elite_set = Append(elite_set, neighbor)
                                     THEN Append(obs.stamps, obs.clock + 1)
                                     ELSE IF gone = {} THEN obs.stamps
                                     ELSE Append(Remove0(obs.stamps, (CHOOSE p \in gone : TRUE) - 1),
                                                 obs.clock + 1),
                          clock |-> obs.clock + 1]
    /\ iteration' = iteration + 1
    /\ UNCHANGED <<cfg, pc, clusters, clusters_mapping, truckable, dronableInit, queue,
                   global, truck_routes, drone_routes, root, neighborhood_idx, tabu_lists,
                   penalty, tabu_size, reset_after, tabu_history, improved, sweep_idx, rt>>

\* the restart of tabu_search: elite_set.swap_remove(i) on a random index
EliteRestart ==
    /\ pc = "elite"
    /\ elite_set # <<>>
    /\ \E i \in 0..(Len(elite_set) - 1) :
        /\ current' = At(elite_set, i)
        /\ elite_set' = SwapRemove0(elite_set, i)
        /\ obs' = [step |-> "pop", index |-> i, stamps |-> SwapRemove0(obs.stamps, i),
                   clock |-> obs.clock]
    /\ UNCHANGED <<cfg, pc, clusters, clusters_mapping, truckable, dronableInit, queue,
                   global, truck_routes, drone_routes, root, result, last_improved,
                   iteration, neighborhood_idx, tabu_lists, penalty, tabu_size, reset_after,
                   tabu_history, improved, sweep_idx, rt>>

NextElite ==
    \/ EliteRecord
    \/ EliteRestart

SpecElite == InitElite /\ [][NextElite]_vars


----------------------------------------------------------------------------
(* The route caches on their own: TruckRoute::new and DroneRoute::new with  *)
(* their thread-local maps, and the operations of Route that call them.     *)
(* A route object is [kind, customers, object]: object numbers the objects  *)
(* constructed for one customer sequence of one kind.                       *)

\* the number of route objects of a run
MaxCached == 3

\* the two maps, the handles handed out so far, the handles returned by the
\* running call, how many of them the maps answered, and whether it panicked
NoCache ==
    [truck |-> {}, drone |-> {}, handed |-> {}, out |-> <<>>, hits |-> 0, panicked |-> FALSE]

\* a construction that skips the lookup
RouteNewUncached(kind, customers, c) ==
    LET made == {h \in c.handed : h.kind = kind /\ h.customers = customers}
        route == [kind |-> kind, customers |-> customers, object |-> Cardinality(made) + 1]
    IN  IF c.panicked THEN c
        ELSE IF ~ValidRoute(customers) THEN [c EXCEPT !.panicked = TRUE]
        ELSE [c EXCEPT ![kind] = {e \in @ : e.customers # customers} \cup {route},
                       !.handed = @ \cup {route},
                       !.out = Append(@, route)]

\* TruckRoute::new / DroneRoute::new: lookup, else _construct and insert
RouteNew(kind, customers, c) ==
    LET hits == {e \in c[kind] : e.customers = customers}
        made == {h \in c.handed : h.kind = kind /\ h.customers = customers}
        route == [kind |-> kind, customers |-> customers, object |-> Cardinality(made) + 1]
    IN  IF c.panicked THEN c
        ELSE IF hits # {} THEN [c EXCEPT !.out = Append(@, CHOOSE e \in hits : TRUE),
                                         !.hits = @ + 1]
        ELSE IF ~ValidRoute(customers) THEN [c EXCEPT !.panicked = TRUE]
        ELSE [c EXCEPT ![kind] = {e \in @ : e.customers # customers} \cup {route},
                       !.handed = @ \cup {route},
                       !.out = Append(@, route)]

\* the calls of new of one generator call, in order; None is no call
RECURSIVE RouteNewAll(_, _, _)
RouteNewAll(requests, i, c) ==
    IF i > Len(requests) THEN c
    ELSE RouteNewAll(requests, i + 1,
                     IF requests[i][2] = None THEN c
                     ELSE RouteNew(requests[i][1], requests[i][2], c))

\* the sequences handed to new from outside
CacheRequests ==
    {<<>>, <<0>>, <<0, 0>>, <<1, 0>>, <<0, 1>>, <<1, 1, 1>>, <<1, 2, 0>>, <<0, 1, 2>>,
     <<0, 0, 0>>, <<0, 1, 0>>, <<0, 2, 0>>, <<0, 1, 2, 0>>, <<0, 2, 1, 0>>}

InitCache ==
    /\ cfg = TruckAndDrone
    /\ pc = "cache"
    /\ clusters = <<>>
    /\ clusters_mapping = <<>>
    /\ truckable = <<>>
    /\ dronableInit = <<>>
    /\ queue = <<>>
    /\ global = {}
    /\ truck_routes = <<>>
    /\ drone_routes = <<>>
    /\ root = None
    /\ result = None
    /\ current = None
    /\ last_improved = 0
    /\ elite_set = <<>>
    /\ neighborhood_idx = 0
    /\ tabu_lists = NoLists
    /\ iteration = 0
    /\ penalty = <<RInt(1), RInt(1), RInt(1), RInt(1)>>
    /\ tabu_size = 0
    /\ reset_after = 0
    /\ tabu_history = NoLists
    /\ improved = TRUE
    /\ sweep_idx = Len(Neighborhoods)
    /\ obs = [step |-> "start"]
    /\ rt = [op |-> "start", arg |-> <<>>, cache |-> NoCache]

\* the end of a call: the caches it leaves; a panic ends the run
Called(op, arg, c) ==
    /\ Cardinality(c.handed) <= MaxCached
    /\ rt' = [op |-> op, arg |-> arg, cache |-> c]
    /\ pc' = IF c.panicked THEN "panic" ELSE "cache"
    /\ UNCHANGED <<cfg, clusters, clusters_mapping, truckable, dronableInit, queue,
                   global, truck_routes, drone_routes, root, result, current, last_improved,
                   elite_set, neighborhood_idx, tabu_lists, iteration, penalty, tabu_size,
                   reset_after, tabu_history, improved, sweep_idx, obs>>

\* the caches at the start of a call
Calling == [rt.cache EXCEPT !.out = <<>>, !.hits = 0]

\* the customers between the depots of a held route are customers, and the
\* routes of one call share none
Apart(a, b) ==
    /\ \A p \in 2..(Len(a) - 1) : a[p] # 0
    /\ \A p \in 2..(Len(b) - 1) : b[p] # 0
    /\ Range(Interior(a)) \cap Range(Interior(b)) = {}

\* Route::new(customers)
CacheNew ==
    /\ pc = "cache"
    /\ \E kind \in Range(Kinds), customers \in CacheRequests :
        Called("new", <<kind, customers>>, RouteNew(kind, customers, Calling))

\* Route::single(customer)
CacheSingle ==
    /\ pc = "cache"
    /\ \E kind \in Range(Kinds), customer \in 1..cfg.customers_count :
        Called("single", <<kind, customer>>, RouteNew(kind, Single(customer), Calling))

\* route.push(customer)
CachePush ==
    /\ pc = "cache"
    /\ \E route \in rt.cache.handed, customer \in 1..cfg.customers_count :
        /\ customer \notin Range(route.customers)
        /\ Called("push", <<route, customer>>,
                  RouteNew(route.kind, Push(route.customers, customer), Calling))

\* route.pop()
CachePop ==
    /\ pc = "cache"
    /\ \E route \in rt.cache.handed :
        Called("pop", <<route>>, RouteNew(route.kind, RoutePop(route.customers), Calling))

\* route.intra_route(neighborhood); a repeated call returns the list stored
\* with the route, which holds the objects the maps hold
CacheIntra ==
    /\ pc = "cache"
    /\ \E route \in rt.cache.handed, neighborhood \in Range(Neighborhoods) :
        LET out == IntraRoute(route.customers, neighborhood)
        IN  Called("intra_route", <<route, neighborhood>>,
                   RouteNewAll([p \in 1..Len(out) |-> <<route.kind, out[p].route>>], 1,
                               Calling))

\* route.inter_route(other, neighborhood)
CacheInter ==
    /\ pc = "cache"
    /\ \E route \in rt.cache.handed, other \in rt.cache.handed,
          neighborhood \in Range(Neighborhoods) :
        /\ Apart(route.customers, other.customers)
        /\ LET out == InterRoute(route.kind, route.customers, other.kind, other.customers,
                                 neighborhood)
           IN  Called("inter_route", <<route, other, neighborhood>>,
                      RouteNewAll(Concat([p \in 1..Len(out) |->
                                             <<<<route.kind, out[p].route_i>>,
                                               <<other.kind, out[p].route_j>>>>]), 1,
                                  Calling))

\* route.inter_route_extract::<T>(neighborhood), T of kind kj
CacheExtract ==
    /\ pc = "cache"
    /\ \E route \in rt.cache.handed, kj \in Range(Kinds),
          neighborhood \in Range(Neighborhoods) :
        /\ Apart(route.customers, <<>>)
        /\ LET out == InterRouteExtract(route.customers, kj, neighborhood)
           IN  Called("inter_route_extract", <<route, kj, neighborhood>>,
                      RouteNewAll(Concat([p \in 1..Len(out) |->
                                             <<<<route.kind, out[p].route_i>>,
                                               <<kj, out[p].route_j>>>>]), 1,
                                  Calling))

NextCache ==
    \/ CacheNew
    \/ CacheSingle
    \/ CachePush
    \/ CachePop
    \/ CacheIntra
    \/ CacheInter
    \/ CacheExtract

SpecCache == InitCache /\ [][NextCache]_vars


----------------------------------------------------------------------------
(* Solution::verify on its own, on every solution of a few routes over two  *)
(* customers, the route lists that repeat or drop a customer included.      *)

\* the panic of Solution::verify on the route lists of a solution;
\* "returned" when it returns
Verify(truck_routes_, drone_routes_) ==
    LET visited == Concat(Concat(truck_routes_) \o Concat(drone_routes_))
        \* the vector customers after the two loops
        served == [c \in 0..cfg.customers_count |-> c = 0 \/ Contains(visited, c)]
        drones == Concat(drone_routes_)
        \* the first drone route that panics, Len(drones) + 1 when none does
        Offending(r) ==
            \/ cfg.single_drone_route /\ Len(drones[r]) # 3
            \/ \E p \in 1..Len(drones[r]) : ~At(cfg.dronable, drones[r][p])
        first == IF \E r \in 1..Len(drones) : Offending(r)
                 THEN CHOOSE r \in 1..Len(drones) :
                          Offending(r) /\ \A q \in 1..(r - 1) : ~Offending(q)
                 ELSE Len(drones) + 1
    IN  IF cfg.single_truck_route /\ \E v \in 1..Len(truck_routes_) : Len(truck_routes_[v]) > 1
        THEN "more than one route"
        ELSE IF first <= Len(drones)
        THEN IF cfg.single_drone_route /\ Len(drones[first]) # 3
             THEN "more than one customer"
             ELSE "not dronable"
        ELSE IF \E c \in 0..cfg.customers_count : ~served[c]
        THEN "not served"
        ELSE "returned"

\* the routes of the solutions handed to verify
VerifyRoutes ==
    {<<0, 1, 0>>, <<0, 2, 0>>, <<0, 1, 2, 0>>, <<0, 2, 1, 0>>, <<0, 1, 1, 0>>, <<0, 2, 2, 0>>}

\* the route lists of one vehicle: at most two routes
VerifyLists == {<<>>} \cup {<<a>> : a \in VerifyRoutes} \cup {<<a, b>> : a, b \in VerifyRoutes}

InitVerify ==
    /\ cfg \in {[TruckAndDrone EXCEPT !.single_truck_route = one_route,
                                      !.single_drone_route = one_customer] :
                   one_route \in BOOLEAN, one_customer \in BOOLEAN}
    /\ pc = "verify"
    /\ clusters = <<>>
    /\ clusters_mapping = <<>>
    /\ truckable = <<>>
    /\ dronableInit = <<>>
    /\ queue = <<>>
    /\ global = {}
    /\ truck_routes \in {<<list>> : list \in VerifyLists}
    /\ drone_routes \in {<<list>> : list \in VerifyLists}
    /\ root = None
    /\ result = None
    /\ current = None
    /\ last_improved = 0
    /\ elite_set = <<>>
    /\ neighborhood_idx = 0
    /\ tabu_lists = NoLists
    /\ iteration = 0
    /\ penalty = <<RInt(1), RInt(1), RInt(1), RInt(1)>>
    /\ tabu_size = 0
    /\ reset_after = 0
    /\ tabu_history = NoLists
    /\ improved = TRUE
    /\ sweep_idx = Len(Neighborhoods)
    /\ obs = [step |-> "start"]
    /\ rt = None

\* solution.verify()
VerifySolution ==
    /\ pc = "verify"
    /\ LET raised == Verify(truck_routes, drone_routes)
       IN  /\ obs' = [step |-> "verify", raised |-> raised]
           /\ pc' = IF raised = "returned" THEN "done" ELSE "panic"
    /\ UNCHANGED <<cfg, clusters, clusters_mapping, truckable, dronableInit, queue,
                   global, truck_routes, drone_routes, root, result, current, last_improved,
                   elite_set, neighborhood_idx, tabu_lists, iteration, penalty, tabu_size,
                   reset_after, tabu_history, improved, sweep_idx, rt>>

NextVerify == VerifySolution

SpecVerify == InitVerify /\ [][NextVerify]_vars


----------------------------------------------------------------------------
(* Properties of the route generators (SpecRoute).                          *)

\* how often customer c is served by the routes of a list; None serves no one
Occurrences(routes, c) ==
    LET In(route) == Cardinality({p \in 1..Len(route) : route[p] = c})
        total[k \in 0..Len(routes)] == IF k = 0 THEN 0 ELSE total[k - 1] + In(routes[k])
    IN  total[Len(routes)]

\* an emitted route is a route: depot at both ends, at least one customer
EmittedShape(route) ==
    route = None \/ (Len(route) >= 3 /\ route[1] = 0 /\ route[Len(route)] = 0)

\* an emitted route of a kind serves only customers the kind can serve
EmittedServable(kind, route) ==
    \A p \in 2..(Len(route) - 1) : Servable(kind, route[p])

\* the replacement routes of the candidate k of rt.out, with their kinds
Emitted(k) ==
    IF rt.op = "intra_route" THEN <<<<rt.ki, rt.out[k].route>>>>
    ELSE IF rt.op = "inter_route"
    THEN <<<<rt.ki, rt.out[k].route_i>>, <<rt.kj, rt.out[k].route_j>>>>
    ELSE <<<<rt.ki, rt.out[k].route_i>>, <<rt.kj, rt.out[k].route_j>>>>

\* the routes the candidates of rt.out replace
Replaced == IF rt.op = "inter_route" THEN <<rt.ci, rt.cj>> ELSE <<rt.ci>>

ClosedShape ==
    rt.op # "input" =>
        \A k \in 1..Len(rt.out) : \A e \in 1..Len(Emitted(k)) : EmittedShape(Emitted(k)[e][2])

ClosedCustomers ==
    rt.op # "input" =>
        \A k \in 1..Len(rt.out) : \A c \in 1..RouteCustomers :
            Occurrences([e \in 1..Len(Emitted(k)) |-> Emitted(k)[e][2]], c)
                = Occurrences(Replaced, c)

ClosedServable ==
    rt.op # "input" =>
        \A k \in 1..Len(rt.out) : \A e \in 1..Len(Emitted(k)) :
            EmittedServable(Emitted(k)[e][1], Emitted(k)[e][2])

\* inter_route has emitted replacement routes for a drone route and a truck route
C2_Witness ==
    /\ rt.op = "inter_route"
    /\ rt.ki = "drone"
    /\ rt.kj = "truck"
    /\ rt.neighborhood = "Move21"
    /\ rt.out # <<>>

\* C2: every replacement route that intra_route, inter_route and
\* inter_route_extract emit for valid routes of any kinds begins and ends
\* with 0 and has length >= 3, the emitted routes together carry exactly the
\* customers of the routes they replace, and every emitted drone route
\* contains only dronable customers
C2_NeighborhoodClosure == ClosedShape /\ ClosedCustomers /\ ClosedServable


----------------------------------------------------------------------------
(* Properties of the run: initialize, tabu_search, post_optimization (Spec). *)

\* every customer is served exactly once by the routes of s
Covers(s) ==
    \A c \in 1..cfg.customers_count :
        Cardinality({p \in 1..Len(Served(s)) : Served(s)[p] = c}) = 1

\* the program is past initialize
Initialized == pc \in {"tabu_search", "loop", "post_optimization", "done"}

\* the program is in or past the loop of tabu_search
Searching == pc \in {"loop", "post_optimization", "done"} /\ current # None

\* C1: every customer appears exactly once across all truck and drone routes
\* of the solution returned by initialize, of every solution returned by
\* search, and of the solutions held as current, as best or in the elite set
\* at any point of tabu_search, also after a restart
C1_Coverage ==
    /\ Initialized => Covers(root)
    /\ Searching =>
          /\ Covers(current)
          /\ Covers(result)
          /\ \A e \in 1..Len(elite_set) : Covers(elite_set[e])
    /\ obs.step \in {"move", "restart", "break"} =>
          Covers(obs.found.solution) /\ Covers(obs.chain.current)
    /\ obs.step = "post_optimization" => Covers(obs.best.solution)

\* a restart has run and left a current that search returned
C1_Witness ==
    /\ obs.step = "restart"
    /\ obs.found.some
    /\ current # root
    /\ Covers(current)

\* the customers of the drone routes of s are dronable
DronesServeDronable(s) ==
    \A v \in 1..Len(s.drone_routes) : \A r \in 1..Len(s.drone_routes[v]) :
        \A p \in 2..(Len(s.drone_routes[v][r]) - 1) :
            At(cfg.dronable, s.drone_routes[v][r][p])

\* C3: every interior customer of every drone route of the solution that
\* initialize returns is dronable, the per-cluster seeds included
C3_InitialDronesDronable == Initialized => DronesServeDronable(root)

\* the last step was an iteration of the loop of tabu_search
Iterated == obs.step \in {"move", "restart", "break"}

\* C4: whenever some neighbour that search enumerates is feasible and costs
\* less than aspiration_cost, search returns a feasible solution of the least
\* cost among the feasible neighbours, whatever the tabu list holds and
\* whatever the infeasible neighbours cost
C4_Aspiration ==
    Iterated /\ obs.aspirants # {} =>
        /\ obs.found.some
        /\ obs.found.solution.feasible
        /\ \A time \in obs.aspirants : ~RLess(time, obs.found.solution.working_time)

\* the attributes of a history in the order of their last insertion
RECURSIVE LastInsertions(_)
LastInsertions(history) ==
    IF history = <<>> THEN <<>>
    ELSE LET last == history[Len(history)]
             earlier == LastInsertions(Pop(history))
         IN  SelectSeq(earlier, LAMBDA tabu : tabu # last) \o <<last>>

\* the last n entries of a sequence
LastOf(s, n) == IF Len(s) <= n THEN s ELSE SubSeq(s, Len(s) - n + 1, Len(s))

Returned(seen) ==
    (IF seen.found.some THEN {seen.found.solution} ELSE {})
    \cup {seen.chain.searches[n].found.solution :
             n \in {m \in 1..Len(seen.chain.searches) : seen.chain.searches[m].found.some}}

\* C6: from a feasible initial solution the cost of best never increases from
\* one iteration to the next, best is replaced only by a feasible solution
\* that search returned and that costs strictly less, and last_improved
\* becomes the number of the iteration exactly when best is replaced
C6_BestMonotone ==
    [][(pc = "loop" /\ pc' # "panic" /\ root.feasible /\ iteration' = iteration + 1) =>
          /\ ~RLess(CostWith(result, penalty), CostWith(result', penalty'))
          /\ result' # result =>
                /\ result'.feasible
                /\ RLess(CostWith(result', penalty), CostWith(result, penalty))
                /\ result' \in Returned(obs')
                /\ last_improved' = iteration'
          /\ result' = result => last_improved' = last_improved]_vars

\* best was replaced in the last iteration by a cheaper feasible solution
C6_Witness ==
    /\ Iterated
    /\ last_improved = iteration
    /\ result # root
    /\ result.feasible
    /\ RLess(Cost(result), Cost(root))

\* C7: no neighbour that search enumerates on the solution returned by
\* post_optimization, for any of the six neighbourhoods, is feasible and costs
\* strictly less than that solution
C7_PostOptimizationFixedPoint ==
    (pc = "done" /\ ~cfg.dry_run) =>
        \A k \in 1..Len(Neighborhoods) :
            \A cands \in {Candidates(result, Neighborhoods[k])} :
                \A pass \in 1..2 : \A n \in 1..Len(cands[pass]) :
                    ~(/\ cands[pass][n].solution.feasible
                      /\ RLess(cands[pass][n].cost, Cost(result)))

\* one member of a list removed, the others kept
OneRemoved(before, member, after) ==
    /\ Len(after) = Len(before) - 1
    /\ \E at \in 1..Len(before) :
          /\ before[at] = member
          /\ \A s \in Range(before) \cup Range(after) :
                Cardinality({p \in 1..Len(after) : after[p] = s})
                    = Cardinality({p \in 1..Len(before) : before[p] = s})
                      - (IF s = member THEN 1 ELSE 0)

\* the calls of search of an ejection chain: the first from the popped member
\* with an empty tabu list, every other from what the one before returned and
\* with the tabu list it left, each with best updated as for an ordinary move
ChainRuns(seen, best, last, i) ==
    LET calls == seen.chain.searches
        After(n) == IF n = Len(calls)
                    THEN [current |-> seen.chain.current, result |-> best,
                          tabu_list |-> seen.chain.tabu_list]
                    ELSE [current |-> calls[n + 1].from, result |-> calls[n + 1].best,
                          tabu_list |-> calls[n + 1].tabu_list]
    IN  /\ Len(calls) = cfg.ejection_chain_iterations
        /\ Len(calls) > 0 =>
              /\ calls[1].from = seen.popped
              /\ calls[1].tabu_list = <<>>
              /\ calls[1].best = seen.moved.result
        /\ \A n \in 1..Len(calls) :
              /\ After(n).current = calls[n].found.solution
              /\ After(n).tabu_list = calls[n].found.tabu_list
              /\ After(n).result =
                    IF /\ calls[n].found.some
                       /\ calls[n].found.solution.feasible
                       /\ RLess(Cost(calls[n].found.solution), Cost(calls[n].best))
                    THEN calls[n].found.solution ELSE calls[n].best
        /\ (best # seen.moved.result) => last = i

\* C8: an iteration restarts exactly when, its move recorded, i differs from
\* last_improved and (i - last_improved) mod reset_after = 0 and the elite set
\* is not empty; one member then leaves the elite set and becomes current, the
\* six tabu lists are empty when the iteration ends, and the ejection chain
\* runs from that member with a tabu list of its own and updates best as an
\* ordinary move does
C8_Restart ==
    [][(pc = "loop" /\ pc' # "panic" /\ iteration' = iteration + 1) =>
          LET seen == obs'
              due == /\ iteration' # seen.moved.last_improved
                     /\ (iteration' - seen.moved.last_improved) % reset_after = 0
          IN  /\ (seen.step = "restart") <=> (due /\ seen.moved.elite_set # <<>>)
              /\ seen.step = "restart" =>
                    /\ OneRemoved(seen.moved.elite_set, seen.popped, seen.remaining)
                    /\ tabu_lists' = [k \in 1..6 |-> <<>>]
                    /\ ChainRuns(seen, result', last_improved', iteration')]_vars

\* a restart whose ejection chain found a neighbour of the popped member
C8_Witness ==
    /\ obs.step = "restart"
    /\ \E n \in 1..Len(obs.chain.searches) : obs.chain.searches[n].found.some
    /\ obs.chain.current # obs.popped
    /\ tabu_lists = NoLists

\* C9: under every strategy the iteration after a restart starts from the
\* solution obtained from the popped elite member, the member itself or its
\* ejection-chain descendant, not from the current of before the restart
C9_RestartHandOver ==
    (obs.step = "restart" /\ pc = "loop") => current = obs.chain.current

\* C10: with fix_iteration = N the loop runs exactly N iterations and never
\* restarts; without it the loop ends only in an iteration that requires a
\* restart, i # last_improved and (i - last_improved) mod reset_after = 0,
\* while the elite set is empty
C10_LoopExit ==
    [][/\ (cfg.fix_iteration # None /\ pc' = "loop") => iteration' < cfg.fix_iteration[1]
       /\ (cfg.fix_iteration # None /\ pc # "post_optimization" /\ pc' = "post_optimization") =>
             iteration' = cfg.fix_iteration[1]
       /\ (cfg.fix_iteration # None /\ pc = "loop") => obs'.step \notin {"restart", "break"}
       /\ (cfg.fix_iteration = None /\ pc = "loop" /\ pc' = "post_optimization") =>
             /\ iteration' # last_improved'
             /\ (iteration' - last_improved') % reset_after = 0
             /\ elite_set' = <<>>]_vars

\* the loop of a run without fix_iteration has ended, after at least one
\* restart
C10_Witness ==
    /\ cfg.fix_iteration = None
    /\ obs.step = "break"
    /\ pc = "post_optimization"
    /\ elite_set = <<>>
    /\ iteration > reset_after


----------------------------------------------------------------------------
(* Termination of the run (FairSpec).                                       *)

\* C11: with fix_iteration unset and reset_after >= 1, tabu_search leaves its
\* main loop and the post-optimization that follows ends as well: from every
\* state of the loop the run reaches the end of tabu_search
C11_Termination ==
    (pc = "loop" /\ cfg.fix_iteration = None /\ reset_after >= 1) ~> (pc = "done")

\* a run without fix_iteration has ended after its elite set ran empty in an
\* iteration that required a restart
C11_Witness ==
    /\ pc = "done"
    /\ cfg.fix_iteration = None
    /\ reset_after >= 1
    /\ elite_set = <<>>
    /\ iteration > last_improved
    /\ (iteration - last_improved) % reset_after = 0


----------------------------------------------------------------------------
(* Scenario S1: one customer, one truck (Spec).                             *)

\* the instance of scenario S1
SingleCustomerInstance ==
    cfg.customers_count = 1 /\ cfg.trucks_count = 1 /\ cfg.fix_iteration = None

\* the initial solution is the truck route [0, 1, 0] and no drone route
OnlyTruckRoute(s) ==
    /\ s.truck_routes = <<<<Single(1)>>>>
    /\ \A d \in 1..Len(s.drone_routes) : s.drone_routes[d] = <<>>

\* no call of search of the last step returned a neighbour
NothingFound ==
    /\ Iterated =>
          /\ ~obs.found.some
          /\ \A k \in 1..Len(obs.chain.searches) : ~obs.chain.searches[k].found.some
    /\ obs.step = "post_optimization" => ~obs.best.some

----------------------------------------------------------------------------
(* The elite set (Spec).                                                    *)

\* C13: from its initialisation on, the elite set of tabu_search holds at
\* most max_elite_size solutions, for every max_elite_size >= 0
C13_EliteBound ==
    (pc \in {"loop", "post_optimization", "done"} /\ ~cfg.dry_run) =>
        Len(elite_set) <= cfg.max_elite_size


----------------------------------------------------------------------------
(* The strategies (Spec).                                                   *)

\* NEIGHBORHOODS, in the order of the claim
CyclicOrder == <<"Move10", "Move11", "Move20", "Move21", "Move22", "TwoOpt">>

\* C15: under Strategy::Cyclic the search of iteration i uses family
\* (i - 1) mod 6 of Move10, Move11, Move20, Move21, Move22, TwoOpt, also after
\* a restart and after an iteration whose search returned None
C15_Cyclic ==
    cfg.strategy = "Cyclic" =>
        /\ Iterated =>
              At(Neighborhoods, obs.neighborhood_idx) = CyclicOrder[((iteration - 1) % 6) + 1]
        /\ pc = "loop" => At(Neighborhoods, neighborhood_idx) = CyclicOrder[(iteration % 6) + 1]

\* iteration 7 of a cyclic run, after a restart and after searches that
\* returned None, is back at the first family
C15_Witness ==
    /\ cfg.strategy = "Cyclic"
    /\ obs.step = "move"
    /\ iteration = 7
    /\ obs.neighborhood_idx = 0
    /\ ~obs.found.some

\* C16: under Strategy::Vns, after an iteration that improved best the next
\* family index is 0 and current is kept; after an iteration that did not,
\* the next index is (index + 1) mod 6 and current is reset to its value at
\* the start of the iteration if and only if the new index is not 0
C16_Vns ==
    [][(cfg.strategy = "Vns" /\ pc = "loop" /\ obs'.step \in {"move", "restart"}) =>
          IF last_improved' = iteration'
          THEN neighborhood_idx' = 0 /\ current' = obs'.chain.current
          ELSE /\ neighborhood_idx' = (neighborhood_idx + 1) % 6
               /\ neighborhood_idx' # 0 => current' = current
               /\ neighborhood_idx' = 0 => current' = obs'.chain.current]_vars

\* an iteration of a Vns run did not improve best, the index wrapped around
\* to 0 and current moved on to the neighbour
C16_Witness ==
    /\ cfg.strategy = "Vns"
    /\ pc = "loop"
    /\ obs.step = "move"
    /\ last_improved # iteration
    /\ obs.neighborhood_idx = 5
    /\ neighborhood_idx = 0
    /\ current = obs.found.solution
    /\ current # obs.old_current

----------------------------------------------------------------------------
(* The penalty coefficients (SpecPenalty).                                  *)

\* the coefficient c after one update for the given violation
Updated(c, violation) ==
    IF RPos(violation)
    THEN IF RLess(RInt(1000), RMul(c, <<3, 2>>)) THEN RInt(1000) ELSE RMul(c, <<3, 2>>)
    ELSE IF RLess(RMul(c, <<2, 3>>), RInt(1)) THEN RInt(1) ELSE RMul(c, <<2, 3>>)

\* the four coefficients after one update for the violations of s
UpdatedAll(coeff, s) ==
    <<Updated(coeff[1], s.energy_violation), Updated(coeff[2], s.capacity_violation),
      Updated(coeff[3], s.waiting_time_violation), Updated(coeff[4], s.fixed_time_violation)>>

\* C17: each penalty coefficient starts at 1 and lies in [1, 1000] in every
\* reachable state; every completed iteration updates each coefficient
\* exactly once, times 1.5 when the violation of current is positive and
\* divided by 1.5 otherwise, then clamped to [1, 1000]; no other step
\* changes a coefficient
C17_PenaltyCoefficients ==
    /\ [](\A k \in 1..4 : ~RLess(penalty[k], RInt(1)) /\ ~RLess(RInt(1000), penalty[k]))
    /\ []((pc # "penalty" /\ iteration = 0) =>
            penalty = <<RInt(1), RInt(1), RInt(1), RInt(1)>>)
    /\ [][IF pc = "loop" /\ obs'.step \in {"move", "restart"}
          THEN penalty' = UpdatedAll(penalty, obs'.chain.current)
          ELSE IF pc = "penalty"
          THEN penalty' = UpdatedAll(penalty, obs'.current)
          ELSE penalty' = penalty]_vars

\* the capacity coefficient has grown to the upper end of the clamp while
\* another one sits at the lower end
C17_Witness ==
    /\ obs.step = "penalty"
    /\ RPos(obs.current.capacity_violation)
    /\ ~RPos(obs.current.energy_violation)
    /\ penalty[2] = RInt(1000)
    /\ penalty[1] = RInt(1)

----------------------------------------------------------------------------
(* Elite eviction (SpecElite).                                              *)

\* the Hamming distances of the members of the elite set before the record
\* to the recorded neighbour
EliteDistance(p) == HammingDistance(obs.before[p], obs.neighbor)

\* the record removed member p and appended the neighbour
Evicts(p) == elite_set = Append(Remove0(obs.before, p - 1), obs.neighbor)

\* the elite set was full when the neighbour was recorded
EliteFull == obs.step = "record" /\ Len(obs.before) = cfg.max_elite_size

\* C14 as stated: when a feasible improvement is recorded while the elite set
\* holds max_elite_size (>= 1) members, exactly one member is removed, its
\* Hamming distance to the new best is the minimum over the set, it is the
\* earliest-inserted of the members at that distance, and the new best is
\* appended; when the set holds fewer members the new best is appended and
\* nothing is removed
C14_EvictionAsStated ==
    obs.step = "record" =>
        /\ result = obs.neighbor
        /\ IF EliteFull
           THEN \E p \in 1..Len(obs.before) :
                   /\ Evicts(p)
                   /\ \A q \in 1..Len(obs.before) :
                         /\ EliteDistance(p) <= EliteDistance(q)
                         /\ EliteDistance(p) = EliteDistance(q) =>
                                obs.before_stamps[p] <= obs.before_stamps[q]
           ELSE elite_set = Append(obs.before, obs.neighbor)

\* C14, amended: the member removed from a full elite set is the first one in
\* the order of the vector among the members at the minimum Hamming distance
\* to the new best; the rest as stated
C14_Eviction ==
    obs.step = "record" =>
        /\ result = obs.neighbor
        /\ IF EliteFull
           THEN \E p \in 1..Len(obs.before) :
                   /\ Evicts(p)
                   /\ Len(elite_set) = cfg.max_elite_size
                   /\ \A q \in 1..Len(obs.before) :
                         /\ EliteDistance(p) <= EliteDistance(q)
                         /\ EliteDistance(p) = EliteDistance(q) => p <= q
           ELSE elite_set = Append(obs.before, obs.neighbor)

\* a full elite set whose first member was inserted after its second lost
\* the first of two members at the minimum distance
C14_Witness ==
    /\ EliteFull
    /\ cfg.max_elite_size >= 1
    /\ Evicts(1)
    /\ EliteDistance(1) = EliteDistance(2)
    /\ \A q \in 1..Len(obs.before) : EliteDistance(1) <= EliteDistance(q)
    /\ obs.before_stamps[2] < obs.before_stamps[1]

----------------------------------------------------------------------------
(* Route identity and the panics of the route operations (SpecCache).       *)

\* the map of a kind
CacheOf(kind) == rt.cache[kind]

\* the last step was a call of an operation of Route
RouteCalled == rt.op # "start"

\* the kinds whose new a call can reach
CallKinds(call) ==
    CASE call.op \in {"new", "single"} -> {call.arg[1]}
      [] call.op \in {"push", "pop", "intra_route"} -> {call.arg[1].kind}
      [] call.op = "inter_route" -> {call.arg[1].kind, call.arg[2].kind}
      [] call.op = "inter_route_extract" -> {call.arg[1].kind, call.arg[2]}
      [] OTHER -> {}

\* C18: for each route kind, after any sequence of Route::new, single, push,
\* pop and neighbour-generation calls, two requests for the same customer
\* sequence return the same cached object; a cache entry is never removed or
\* replaced once inserted; a malformed sequence is never inserted; the truck
\* cache and the drone cache are separate
C18_RouteIdentity ==
    /\ [](pc \in {"cache", "panic"} =>
            /\ \A h, g \in rt.cache.handed :
                  (h.kind = g.kind /\ h.customers = g.customers) => h = g
            /\ \A p \in 1..Len(rt.cache.out) : rt.cache.out[p] \in CacheOf(rt.cache.out[p].kind)
            /\ \A kind \in Range(Kinds) : \A e \in CacheOf(kind) :
                  /\ ValidRoute(e.customers)
                  /\ e.kind = kind
                  /\ e \in rt.cache.handed
            /\ rt.cache.handed = CacheOf("truck") \cup CacheOf("drone"))
    /\ [][pc = "cache" =>
            /\ \A kind \in Range(Kinds) : CacheOf(kind) \subseteq rt'.cache[kind]
            /\ \A kind \in Range(Kinds) \ CallKinds(rt') : rt'.cache[kind] = CacheOf(kind)]_vars

\* a request for a sequence that both caches hold was answered from the map
\* of its kind with the one object made for it
C18_Witness ==
    /\ rt.op = "new"
    /\ rt.arg = <<"drone", <<0, 2, 0>>>>
    /\ rt.cache.hits = 1
    /\ rt.cache.out = <<[kind |-> "drone", customers |-> <<0, 2, 0>>, object |-> 1]>>
    /\ [kind |-> "truck", customers |-> <<0, 2, 0>>, object |-> 1] \in CacheOf("truck")
    /\ Cardinality(rt.cache.handed) = MaxCached

\* a route that serves one customer
ServesOne(route) == Len(route.customers) = 3

\* C19: Route::new panics if and only if the sequence does not start with 0,
\* does not end with 0, or has fewer than 3 entries; single, push, pop,
\* intra_route, inter_route and inter_route_extract complete without panic
\* on every valid route, also on a route that serves a single customer
C19_Totality ==
    RouteCalled =>
        IF rt.op = "new"
        THEN rt.cache.panicked <=>
                 \/ Len(rt.arg[2]) < 3
                 \/ rt.arg[2][1] # 0
                 \/ rt.arg[2][Len(rt.arg[2])] # 0
        ELSE ~rt.cache.panicked

----------------------------------------------------------------------------
(* Solution::verify (SpecVerify).                                           *)

\* the routes of the verified solution
VerifiedRoutes == Concat(truck_routes) \o Concat(drone_routes)

\* some customer is in no route
Unserved == \E c \in 1..cfg.customers_count : Occurrences(VerifiedRoutes, c) = 0

\* some customer appears two or more times, in one route or across routes
ServedTwice == \E c \in 1..cfg.customers_count : Occurrences(VerifiedRoutes, c) >= 2

\* a drone route contains a customer that is not dronable
DroneServesOther ==
    \E r \in 1..Len(Concat(drone_routes)) : \E p \in 2..(Len(Concat(drone_routes)[r]) - 1) :
        ~At(cfg.dronable, Concat(drone_routes)[r][p])

\* single_truck_route is set and a truck has more than one route
TruckLimitBreached ==
    cfg.single_truck_route /\ \E v \in 1..Len(truck_routes) : Len(truck_routes[v]) > 1

\* single_drone_route is set and a drone route serves more than one customer
DroneLimitBreached ==
    cfg.single_drone_route /\ \E r \in 1..Len(Concat(drone_routes)) :
        Len(Concat(drone_routes)[r]) - 2 > 1

\* C20: verify panics on every solution in which a customer of
\* 1..customers_count is in no route or appears two or more times, in which a
\* drone route contains a non-dronable customer, in which single_truck_route
\* is set and a truck has more than one route, or in which single_drone_route
\* is set and a drone route serves more than one customer; it returns
\* normally on every other solution
C20_Verify ==
    obs.step = "verify" =>
        (obs.raised # "returned" <=>
            \/ Unserved
            \/ ServedTwice
            \/ DroneServesOther
            \/ TruckLimitBreached
            \/ DroneLimitBreached)

----------------------------------------------------------------------------
(* Route::intra_route, Move10 (SpecRoute).                                  *)

\* the last step ran intra_route(Move10) on the route rt.ci
IntraMove10Ran == rt.op = "intra_route" /\ rt.neighborhood = "Move10"

\* route is customers with the customer at 0-based position from moved to
\* the 0-based position to
MovedTo(customers, from, to) == Insert0(Remove0(customers, from), to, At(customers, from))

\* C21: for a route with k interior customers intra_route(Move10) returns
\* exactly k * (k - 1) candidates, each the route with one customer moved to
\* a different position and with the one-element list of that customer as
\* tabu attribute; for the route [0,1,2,3,4,0] the first candidate is
\* [0,2,1,3,4,0] with tabu [1] and the count is 12
C21_IntraMove10 ==
    IntraMove10Ran =>
        LET k == Len(rt.ci) - 2
        IN  /\ Len(rt.out) = k * (k - 1)
            /\ \A p \in 1..Len(rt.out) :
                  \E from \in 1..k, to \in 1..k :
                      /\ from # to
                      /\ rt.out[p].route = MovedTo(rt.ci, from, to)
                      /\ rt.out[p].tabu = <<At(rt.ci, from)>>
            /\ rt.ci = <<0, 1, 2, 3, 4, 0>> =>
                  /\ rt.out[1] = Cand(<<0, 2, 1, 3, 4, 0>>, <<1>>)
                  /\ Len(rt.out) = 12

\* intra_route(Move10) has run on the route [0,1,2,3,4,0]
C21_Witness ==
    /\ IntraMove10Ran
    /\ rt.ci = <<0, 1, 2, 3, 4, 0>>
    /\ Len(rt.out) = 12
    /\ rt.out[1].route = <<0, 2, 1, 3, 4, 0>>

----------------------------------------------------------------------------
(* Instances without a truck.                                               *)

\* the instance has no truck and at least one drone, and every customer is
\* feasible as the only route of a drone
DroneOnlyInstance ==
    /\ cfg.trucks_count = 0
    /\ cfg.drones_count >= 1
    /\ \A c \in 1..cfg.customers_count :
          /\ At(cfg.dronable, c)
          /\ Feasible(<<>>, Set0(EmptyLists(cfg.drones_count), 0, <<Single(c)>>))

\* C22: with trucks_count = 0, drones_count >= 1 and every customer feasible
\* as a singleton drone route, initialize completes without panic and returns
\* a solution that covers every customer, and _find_decisive_vehicle on that
\* solution selects a drone
C22_DroneOnly ==
    DroneOnlyInstance =>
        /\ pc # "panic"
        /\ Initialized =>
              /\ Covers(root)
              /\ ~FindDecisiveVehicle(root).is_truck

----------------------------------------------------------------------------
(* The outcome of Solution::initialize.                                     *)

\* the route lists of initialize as they stand
Partial == [truck_routes |-> truck_routes, drone_routes |-> drone_routes]

\* how often customer c is in the routes of initialize
Placed(c) == Cardinality({p \in 1..Len(Served(Partial)) : Served(Partial)[p] = c})

\* initialize has panicked
InitializePanicked == pc = "panic" /\ root = None

\* C23: initialize either panics, because some customer is servable by
\* neither fleet or because the queue empties while customers remain, or
\* returns a feasible solution; after every step of its insertion loop the
\* partial solution is feasible, the customers placed are exactly those
\* removed from the global pool and none is placed twice; the returned
\* solution has trucks_count truck lists and drones_count drone lists
C23_Greedy ==
    /\ InitializePanicked =>
          \/ /\ obs.message = "cannot be served"
             /\ \E c \in 1..cfg.customers_count : ~truckable[c] /\ ~dronableInit[c]
          \/ /\ obs.message = "trivial solution"
             /\ queue = <<>>
             /\ global # {}
    /\ pc = "insert" =>
          /\ Feasible(truck_routes, drone_routes)
          /\ \A c \in 1..cfg.customers_count : Placed(c) = IF c \in global THEN 0 ELSE 1
    /\ Initialized =>
          /\ root.feasible
          /\ Len(root.truck_routes) = cfg.trucks_count
          /\ Len(root.drone_routes) = cfg.drones_count

-----------------------------------------------------------------------------
(* Neighborhood::search as a function of its inputs: a solution of a small   *)
(* instance with two trucks and one drone, a tabu list whose entries are     *)
(* sorted (as search stores them) and an aspiration cost.                    *)

SearchConfig ==
    [customers_count |-> 3, trucks_count |-> 2, drones_count |-> 1,
     x |-> <<0, 2, 1, 5>>, y |-> <<0, 2, 1, 1>>,
     demands |-> <<0, 1, 1, 4>>,
     dronable |-> <<TRUE, TRUE, TRUE, FALSE>>,
     truck_capacity |-> 4, drone_capacity |-> 1,
     waiting_time_limit |-> 64, drone_fixed_time |-> 8,
     single_truck_route |-> FALSE, single_drone_route |-> FALSE,
     strategy |-> "Cyclic", fix_iteration |-> None,
     tabu_size_factor |-> <<1, 1>>, reset_after_factor |-> <<1, 1>>,
     max_elite_size |-> 2, ejection_chain_iterations |-> 2, dry_run |-> FALSE]

\* the ways to hand a list of routes to vehicles 1..n, in order
RECURSIVE Deals(_, _)
Deals(routes, n) ==
    IF n = 0 THEN IF routes = <<>> THEN {<<>>} ELSE {}
    ELSE UNION {{<<SubSeq(routes, 1, k)>> \o rest :
                    rest \in Deals(SubSeq(routes, k + 1, Len(routes)), n - 1)} :
                  k \in 0..Len(routes)}

\* the solutions that serve every customer once, the drone only customers
\* that are dronable
SearchSolutions ==
    {SolutionNew(SubSeq(fleet, 1, cfg.trucks_count),
                 SubSeq(fleet, cfg.trucks_count + 1, Len(fleet))) :
        fleet \in {f \in UNION {Deals(routes, cfg.trucks_count + cfg.drones_count) :
                      routes \in UNION {Cuts(a) :
                          a \in {g \in Arrangements(1..cfg.customers_count) :
                                    Len(g) = cfg.customers_count}}} :
                     \A v \in (cfg.trucks_count + 1)..Len(f) : \A r \in 1..Len(f[v]) :
                        \A p \in 2..(Len(f[v][r]) - 1) : At(cfg.dronable, f[v][r][p])}}

\* the tabu lists handed to search: at most one entry, sorted
SearchTabuLists ==
    {<<>>} \cup {<<t>> : t \in {g \in Arrangements(1..cfg.customers_count) : Sort(g) = g}}

\* the result whose cost is the aspiration cost: every customer on a truck
\* route of its own
SearchRoot ==
    SolutionNew(<<[c \in 1..SearchConfig.customers_count |-> Single(c)], <<>>>>, <<<<>>>>)

InitSearch ==
    /\ cfg = SearchConfig
    /\ pc = "search"
    /\ clusters = <<>>
    /\ clusters_mapping = <<>>
    /\ truckable = <<>>
    /\ dronableInit = <<>>
    /\ queue = <<>>
    /\ global = {}
    /\ truck_routes = <<>>
    /\ drone_routes = <<>>
    /\ penalty = <<RInt(1), RInt(1), RInt(1), RInt(1)>>
    /\ root = SearchRoot
    /\ current \in SearchSolutions
    /\ result \in {s \in {root, current} : s.feasible}
    /\ last_improved = 0
    /\ elite_set = <<>>
    /\ neighborhood_idx \in 0..(Len(Neighborhoods) - 1)
    /\ \E tabu_list \in SearchTabuLists :
          tabu_lists = Set0(NoLists, neighborhood_idx, tabu_list)
    /\ iteration = 0
    /\ tabu_size = TabuSize(root)
    /\ reset_after = 0
    /\ tabu_history = NoLists
    /\ improved = TRUE
    /\ sweep_idx = Len(Neighborhoods)
    /\ obs = [step |-> "start"]
    /\ rt = None

\* Neighborhood::search(current, tabu_list, tabu_size, result.cost())
SearchCall ==
    /\ pc = "search"
    /\ obs.step = "start"
    /\ \E moves \in {[pass \in 1..2 |->
                        PassMoves(current, At(Neighborhoods, neighborhood_idx), pass)]} :
       \E loops \in {[pass \in 1..2 |-> Evaluate(WorkingCopy(current), moves[pass])]} :
       \E cands \in {[pass \in 1..2 |-> loops[pass].cands]} :
       \E found \in {SearchOn(current, cands, At(tabu_lists, neighborhood_idx), tabu_size,
                              Cost(result))} :
           /\ tabu_lists' = Set0(tabu_lists, neighborhood_idx, found.tabu_list)
           /\ obs' = [step |-> "move", neighborhood_idx |-> neighborhood_idx,
                      old_current |-> current,
                      tabu_list |-> At(tabu_lists, neighborhood_idx),
                      found |-> found,
                      aspirants |-> Aspirants(cands[1] \o cands[2], Cost(result)),
                      moves |-> moves, cands |-> cands,
                      left |-> [pass \in 1..2 |-> loops[pass].w]]
           /\ current' = found.solution
    /\ UNCHANGED <<cfg, pc, clusters, clusters_mapping, truckable, dronableInit, queue,
                   global, truck_routes, drone_routes, root, result, last_improved,
                   elite_set, neighborhood_idx, iteration, penalty, tabu_size, reset_after,
                   tabu_history, improved, sweep_idx, rt>>

\* Neighborhood::EjectionChain.search(current, ejection_chain_tabu_list,
\* ejection_chain_iterations, result.cost()), first round: the list is empty
SearchEjection ==
    /\ pc = "search"
    /\ obs.step = "start"
    /\ neighborhood_idx = 0
    /\ At(tabu_lists, neighborhood_idx) = <<>>
    /\ \E moves \in {[pass \in 1..2 |-> PassMoves(current, "EjectionChain", pass)]} :
       \E loops \in {[pass \in 1..2 |-> Evaluate(WorkingCopy(current), moves[pass])]} :
       \E cands \in {[pass \in 1..2 |-> loops[pass].cands]} :
       \E found \in {SearchOn(current, cands, <<>>, cfg.ejection_chain_iterations,
                              Cost(result))} :
           /\ obs' = [step |-> "eject", old_current |-> current, tabu_list |-> <<>>,
                      found |-> found,
                      aspirants |-> Aspirants(cands[1] \o cands[2], Cost(result)),
                      moves |-> moves, cands |-> cands,
                      left |-> [pass \in 1..2 |-> loops[pass].w]]
           /\ current' = found.solution
    /\ UNCHANGED <<cfg, pc, clusters, clusters_mapping, truckable, dronableInit, queue,
                   global, truck_routes, drone_routes, root, result, last_improved,
                   elite_set, neighborhood_idx, tabu_lists, iteration, penalty, tabu_size,
                   reset_after, tabu_history, improved, sweep_idx, rt>>

NextSearch ==
    \/ SearchCall
    \/ SearchEjection

SpecSearch == InitSearch /\ [][NextSearch]_vars

\* ---- C24: tabu attributes are looked up in sorted form ----

\* an iteration of the tabu loop has run its neighbourhood search
Searched == pc # "panic" /\ obs.step \in {"move", "restart", "break"}

\* the candidate returned by the search of this iteration carries a tabu
\* attribute whose sorted form was an entry of the tabu list searched
ReturnedTabu == Searched /\ obs.found.some /\ Contains(obs.tabu_list, obs.found.tabu)

\* the candidate returned by the search of this iteration is feasible and
\* cheaper than the aspiration cost
ReturnedAspirant ==
    /\ obs.found.solution.feasible
    /\ obs.found.solution.working_time \in obs.aspirants

\* C24: a candidate whose sorted tabu attribute is an entry of tabu_list is
\* returned by Neighborhood::search only when it is feasible with a cost below
\* aspiration_cost
C24_SortedTabuLookup == ReturnedTabu => ReturnedAspirant

\* ---- C25: the reverse direction of Move10, Move20 and Move21 ----

\* Neighborhood::search was called on current
SearchCalled == pc = "search" /\ obs.step = "move"

\* the inter-route candidates evaluated by the call whose route r_j belongs
\* to a vehicle other than the decisive one, under a directional family
OtherVehicleMoves ==
    {c \in 1..Len(obs.moves[2]) :
        /\ obs.moves[2][c].type = "inter"
        /\ Asymmetric(At(Neighborhoods, obs.neighborhood_idx))
        /\ ~(/\ obs.moves[2][c].kind_j = obs.moves[2][c].kind_i
             /\ obs.moves[2][c].vehicle_j = obs.moves[2][c].vehicle_i)}

\* candidate m is one of r_i.inter_route(r_j)
Forward(m) ==
    \E n \in Range(InterRoute(m.kind_i, m.route_i, m.kind_j, m.route_j,
                              At(Neighborhoods, obs.neighborhood_idx))) :
        n.route_i = m.new_route_i /\ n.route_j = m.new_route_j /\ n.tabu = m.tabu

\* C25: under Move10, Move20 and Move21 every candidate evaluated for a route
\* r_j of a vehicle other than the decisive one is a candidate of
\* r_i.inter_route(r_j); the candidates of r_j.inter_route(r_i) are left out
C25_DirectionalReversal ==
    SearchCalled => \A c \in OtherVehicleMoves : Forward(obs.moves[2][c])

\* ---- C26: the selection when no candidate passes the aspiration test ----

\* the candidates of the call in order of enumeration: intra, then inter and
\* extract
Enumerated == obs.cands[1] \o obs.cands[2]

\* the candidates whose tabu attribute, as generated, is not in the list
NotTabu == {c \in 1..Len(Enumerated) : ~Contains(obs.tabu_list, Enumerated[c].tabu)}

\* the first enumerated candidate of minimum cost among the candidates allowed
FirstCheapest(allowed) ==
    CHOOSE c \in allowed :
        \A d \in allowed : /\ ~RLess(Enumerated[d].cost, Enumerated[c].cost)
                           /\ (Enumerated[d].cost = Enumerated[c].cost => c <= d)

\* search returns the first cheapest of the candidates allowed, None when
\* none is allowed
Selects(allowed) ==
    /\ obs.found.some <=> allowed # {}
    /\ allowed # {} =>
          /\ obs.found.solution = Enumerated[FirstCheapest(allowed)].solution
          /\ obs.found.tabu = Sort(Enumerated[FirstCheapest(allowed)].tabu)

\* C26: when no enumerated candidate is feasible with a cost below
\* aspiration_cost, search returns the first enumerated candidate of minimum
\* cost among the candidates whose tabu attribute is not in tabu_list, and
\* None exactly when there is no such candidate
C26_Selection == (SearchCalled /\ obs.aspirants = {}) => Selects(NotTabu)

\* ---- C27: the order of the steps of an iteration ----

\* the row that step 4 of the loop writes for the iteration that just ran:
\* current after the neighbourhood move, the family selected and its list
RowOfMove ==
    [written |-> TRUE, solution |-> obs.found.solution,
     neighborhood |-> At(Neighborhoods, obs.neighborhood_idx),
     tabu_list |-> obs.found.tabu_list]

\* C27: in every iteration, one with a restart included, the penalty
\* coefficients are updated from current as it stands after the neighbourhood
\* move and before any restart, and the logged row carries that current, the
\* family selected for the iteration and that family's tabu list
C27_StepOrder ==
    (pc # "search" /\ Searched) =>
        /\ penalty = UpdateViolationSolution(obs.old_penalty, obs.found.solution)
        /\ obs.log = RowOfMove

-----------------------------------------------------------------------------
(* DroneRoute::_construct under DroneConfig::Linear, where the powers depend *)
(* on the weight carried: the energy summed over the hops of a route.        *)

\* a DroneConfig::Linear: the powers are beta * weight + gamma, the cruise
\* speed and the times of take-off and landing are whole numbers
LinearDrone ==
    [beta |-> 1, gamma |-> 1, cruise_speed |-> 1, takeoff_time |-> 1, landing_time |-> 1]

\* DroneConfig::takeoff_power, landing_power and cruise_power of Linear
LinearPower(drone, weight) == drone.beta * weight + drone.gamma

\* the energy of the hop that leaves position i with the given load
HopEnergy(drone, customers, i, weight) ==
    LET cruise == Distance(At(customers, i), At(customers, i + 1)) \div drone.cruise_speed
    IN  LinearPower(drone, weight) * drone.takeoff_time
        + LinearPower(drone, weight) * cruise
        + LinearPower(drone, weight) * drone.landing_time

\* the loop of DroneRoute::_construct, energy part: weight is raised by the
\* demand of customers[i] after the hop that leaves position i
RECURSIVE DroneEnergyFrom(_, _, _, _)
DroneEnergyFrom(drone, customers, i, weight) ==
    IF i >= Len(customers) - 1 THEN 0
    ELSE HopEnergy(drone, customers, i, weight)
         + DroneEnergyFrom(drone, customers, i + 1, weight + Demand(At(customers, i)))

\* the energy that DroneRoute::_construct compares with the battery
DroneEnergy(drone, customers) == DroneEnergyFrom(drone, customers, 0, 0)

\* the CONFIG of the drone routes: customers on a line, customer c of demand c
EnergyConfig ==
    [RouteConfig EXCEPT !.demands = [c \in 1..(RouteCustomers + 1) |-> c - 1],
                        !.dronable = [c \in 1..(RouteCustomers + 1) |-> TRUE],
                        !.drone_capacity = 16]

\* the drone routes the program can hold
EnergyInputs ==
    {[op |-> "input", customers |-> <<0>> \o a \o <<0>>] :
        a \in Arrangements(1..RouteCustomers)}

InitEnergy ==
    /\ cfg = EnergyConfig
    /\ pc = "energy"
    /\ clusters = <<>>
    /\ clusters_mapping = <<>>
    /\ truckable = <<>>
    /\ dronableInit = <<>>
    /\ queue = <<>>
    /\ global = {}
    /\ truck_routes = <<>>
    /\ drone_routes = <<>>
    /\ root = None
    /\ result = None
    /\ current = None
    /\ last_improved = 0
    /\ elite_set = <<>>
    /\ neighborhood_idx = 0
    /\ tabu_lists = NoLists
    /\ iteration = 0
    /\ penalty = <<RInt(1), RInt(1), RInt(1), RInt(1)>>
    /\ tabu_size = 0
    /\ reset_after = 0
    /\ tabu_history = NoLists
    /\ improved = TRUE
    /\ sweep_idx = Len(Neighborhoods)
    /\ obs = [step |-> "start"]
    /\ rt \in EnergyInputs

\* DroneRoute::_construct(data)
DroneConstruct ==
    /\ pc = "energy"
    /\ rt.op = "input"
    /\ rt' = [op |-> "_construct", customers |-> rt.customers,
              energy |-> DroneEnergy(LinearDrone, rt.customers),
              energy_violation |->
                  Max0(DroneEnergy(LinearDrone, rt.customers) - DroneBattery)]
    /\ UNCHANGED <<cfg, pc, clusters, clusters_mapping, truckable, dronableInit, queue,
                   global, truck_routes, drone_routes, root, result, current,
                   last_improved, elite_set, neighborhood_idx, tabu_lists, iteration,
                   penalty, tabu_size, reset_after, tabu_history, improved, sweep_idx, obs>>

NextEnergy == DroneConstruct

SpecEnergy == InitEnergy /\ [][NextEnergy]_vars

\* ---- C28: the load of the drone on every hop ----

\* the demand still on board on the hop that leaves position h: the demands
\* of the customers after position h
RECURSIVE OnBoard(_, _)
OnBoard(customers, h) ==
    IF h >= Len(customers) - 2 THEN 0
    ELSE Demand(At(customers, h + 1)) + OnBoard(customers, h + 1)

\* the energy of a route whose hop from position h carries OnBoard(h)
RECURSIVE DeliveryEnergyFrom(_, _, _)
DeliveryEnergyFrom(drone, customers, h) ==
    IF h >= Len(customers) - 1 THEN 0
    ELSE HopEnergy(drone, customers, h, OnBoard(customers, h))
         + DeliveryEnergyFrom(drone, customers, h + 1)

\* C28: the energy summed by DroneRoute::_construct for [0, c1, ..., ck, 0]
\* uses on the hop that leaves position h the demand still on board, the sum
\* of the demands of c(h+1)..ck: all demands on the first hop, 0 on the hop
\* back to the depot
C28_EnergyLoad ==
    (pc = "energy" /\ rt.op = "_construct") =>
        rt.energy = DeliveryEnergyFrom(LinearDrone, rt.customers, 0)

\* ---- C29: the restart period ----

\* tabu_search has computed its hyperparameters
Entered == obs.step = "tabu_search"

\* the restart test of an iteration computed a remainder with divisor 0
RemainderByZero == pc = "panic" /\ obs.message = "remainder by zero"

\* C29: with fix_iteration unset the reset_after computed at entry of
\* tabu_search is at least 1 whatever the positive reset_after_factor and the
\* initial solution are, and the restart test never divides by zero
C29_RestartPeriod ==
    /\ (Entered /\ cfg.fix_iteration = None /\ cfg.reset_after_factor[1] > 0) =>
           reset_after >= 1
    /\ ~RemainderByZero

\* ---- C30: candidates are evaluated on a copy that is restored ----

\* how often a route occurs in a list of routes
CountRoute(routes, route) == Cardinality({p \in 1..Len(routes) : routes[p] = route})

\* the vehicles of a solution as <<kind, vehicle>>
VehiclesOf(w) ==
    {<<"truck", v - 1>> : v \in 1..Len(w.truck_routes)}
        \cup {<<"drone", v - 1>> : v \in 1..Len(w.drone_routes)}

\* two route lists that hold the same routes for every vehicle, as multisets
SameRoutes(w1, w2) ==
    /\ VehiclesOf(w1) = VehiclesOf(w2)
    /\ \A veh \in VehiclesOf(w1) :
          /\ Len(VehicleRoutes(w1, veh[1], veh[2])) = Len(VehicleRoutes(w2, veh[1], veh[2]))
          /\ \A r \in Range(VehicleRoutes(w1, veh[1], veh[2])) :
                CountRoute(VehicleRoutes(w1, veh[1], veh[2]), r)
                    = CountRoute(VehicleRoutes(w2, veh[1], veh[2]), r)

\* the working copy before candidate k of the moves is assigned
RECURSIVE BeforeCandidate(_, _, _)
BeforeCandidate(w0, moves, k) ==
    IF k = 1 THEN w0
    ELSE Restore(Apply(BeforeCandidate(w0, moves, k - 1), moves[k - 1]), moves[k - 1])

\* the routes candidate m takes from a vehicle and the routes it gives to it
Taken(m, veh) ==
    (IF <<m.kind_i, m.vehicle_i>> = veh THEN <<m.route_i>> ELSE <<>>)
    \o (IF m.type \in {"inter", "eject"} /\ <<m.kind_j, m.vehicle_j>> = veh
        THEN <<m.route_j>> ELSE <<>>)
    \o (IF m.type = "eject" /\ <<m.kind_k, m.vehicle_k>> = veh
        THEN <<m.route_k>> ELSE <<>>)

Given(m, veh) ==
    (IF <<m.kind_i, m.vehicle_i>> = veh /\ m.new_route_i # None
     THEN <<m.new_route_i>> ELSE <<>>)
    \o (IF m.type # "intra" /\ <<m.kind_j, m.vehicle_j>> = veh /\ m.new_route_j # None
        THEN <<m.new_route_j>> ELSE <<>>)
    \o (IF m.type = "eject" /\ <<m.kind_k, m.vehicle_k>> = veh
        THEN <<m.new_route_k>> ELSE <<>>)

\* neighbour s is the input with the routes of candidate m replaced or removed
OwnRoutesOnly(input, m, s) ==
    /\ VehiclesOf(s) = VehiclesOf(input)
    /\ \A veh \in VehiclesOf(input) :
          \A r \in Range(VehicleRoutes(s, veh[1], veh[2]))
                       \cup Range(VehicleRoutes(input, veh[1], veh[2]))
                       \cup Range(Taken(m, veh)) \cup Range(Given(m, veh)) :
              CountRoute(VehicleRoutes(s, veh[1], veh[2]), r) + CountRoute(Taken(m, veh), r)
                  = CountRoute(VehicleRoutes(input, veh[1], veh[2]), r)
                        + CountRoute(Given(m, veh), r)

\* search ran its inter-route, extract or ejection-chain enumeration
Enumerated2 == pc = "search" /\ obs.step \in {"move", "eject"}

\* C30: in the inter-route, extract and ejection-chain enumeration the working
\* copy holds, before each candidate is assigned and when the enumeration
\* ends, the routes of the input solution for every vehicle (as a multiset),
\* and every neighbour evaluated differs from the input only by the routes
\* its candidate replaces or removes
C30_Isolation ==
    Enumerated2 =>
        /\ SameRoutes(obs.left[2], obs.old_current)
        /\ \A k \in 1..Len(obs.moves[2]) :
              /\ SameRoutes(BeforeCandidate(WorkingCopy(obs.old_current), obs.moves[2], k),
                            obs.old_current)
              /\ OwnRoutesOnly(obs.old_current, obs.moves[2][k], obs.cands[2][k].solution)

\* a candidate that empties route r_i with swap_remove was evaluated, for a
\* vehicle that owns both routes of the pair with r_j last in its list, and
\* another candidate was evaluated after it
C30_Witness ==
    /\ Enumerated2
    /\ \E k \in 1..(Len(obs.moves[2]) - 1) :
          /\ obs.moves[2][k].type = "inter"
          /\ obs.moves[2][k].new_route_i = None
          /\ obs.moves[2][k].same_last

====
